---- MODULE Spec2Model ----
(***************************************************************************)
(* State-machine model of the warp core of three-projection-mapper:        *)
(* MeshWarper (control points, drag handling, grid resize, localStorage    *)
(* persistence), the PerspT homography and the isQuadConcave check.        *)
(*                                                                         *)
(* Numbers.  JavaScript numbers are modelled as exact rationals.  A 2D     *)
(* point is a triple <<X, Y, W>> of integers with W > 0 and gcd 1 that     *)
(* stands for (X/W, Y/W); NaNPt stands for a point whose coordinates are   *)
(* not finite (a division by zero in PerspT.transform).  "Within           *)
(* tolerance" of the floating-point program is equality here.  The z       *)
(* coordinate of every control point is 0 in every state of the program    *)
(* (set to 0 on creation, copied through by every write) and is left out.  *)
(***************************************************************************)
EXTENDS Integers, Sequences, FiniteSets, TLC

(* ---------------------------- bounds ----------------------------------- *)

\* Number of drag-move events in one run.
MaxMoves == 2

(* ------------------------ program constants ---------------------------- *)

\* setGridSize clamps each axis to [MIN_GRID, MAX_GRID].
MIN_GRID == 2
MAX_GRID == 10

\* MeshWarperConfig.width / height: the plane is centred on the origin.
PlaneWidth == 2
PlaneHeight == 2

(* ------------------------ rational arithmetic -------------------------- *)

Abs(n) == IF n < 0 THEN -n ELSE n

RECURSIVE Gcd(_, _)
Gcd(a, b) == IF b = 0 THEN a ELSE Gcd(b, a % b)

NaNPt == <<0, 0, 0>>

\* The point (X/W, Y/W) in normal form; a zero denominator is not finite.
Pt(X, Y, W) ==
    IF W = 0 THEN NaNPt
    ELSE LET g == Gcd(Gcd(Abs(X), Abs(Y)), Abs(W))
             s == IF W < 0 THEN -1 ELSE 1
         IN  <<(s * X) \div g, (s * Y) \div g, (s * W) \div g>>

IsFinite(p) == p[3] # 0

\* a.x < b.x, a.x = b.x, likewise y (finite points).
XLess(a, b) == a[1] * b[3] < b[1] * a[3]
XEq(a, b) == a[1] * b[3] = b[1] * a[3]
YLess(a, b) == a[2] * b[3] < b[2] * a[3]

(* --------------------------- geometry.ts ------------------------------- *)

\* robust-orientation's orientation3 (sign only): (a.y-c.y)(b.x-c.x) - (a.x-c.x)(b.y-c.y).
orient(a, b, c) ==
    (a[2] * c[3] - c[2] * a[3]) * (b[1] * c[3] - c[1] * b[3])
  - (a[1] * c[3] - c[1] * a[3]) * (b[2] * c[3] - c[2] * b[3])

\* The comparator of the hull's sort: by x, then by y.
SortBefore(pts, i, j) ==
    \/ XLess(pts[i], pts[j])
    \/ XEq(pts[i], pts[j]) /\ YLess(pts[i], pts[j])
    \/ pts[i] = pts[j] /\ i < j

SortedIndices(pts) ==
    CHOOSE s \in [1..Len(pts) -> 1..Len(pts)] :
        /\ \A i, j \in 1..Len(pts) : i < j => SortBefore(pts, s[i], s[j])

\* Pop the chain while its last turn with p has the sign `sgn` or is straight.
RECURSIVE PopChain(_, _, _, _)
PopChain(pts, chain, p, sgn) ==
    IF Len(chain) > 1
       /\ sgn * orient(pts[chain[Len(chain) - 1]], pts[chain[Len(chain)]], p) >= 0
    THEN PopChain(pts, SubSeq(chain, 1, Len(chain) - 1), p, sgn)
    ELSE chain

RECURSIVE BuildChain(_, _, _, _, _)
BuildChain(pts, sorted, i, chain, sgn) ==
    IF i > Len(sorted) THEN chain
    ELSE BuildChain(pts, sorted, i + 1,
                    Append(PopChain(pts, chain, pts[sorted[i]], sgn), sorted[i]), sgn)

\* convex-hull (2D: monotone chain): the number of edges of the hull, which
\* is its number of vertices; collinear points are not vertices, and a hull
\* of two points or fewer has no edge.
calcConvexHull(pts) ==
    LET sorted == SortedIndices(pts)
        start == <<sorted[1], sorted[2]>>
        lower == BuildChain(pts, sorted, 3, start, -1)
        upper == BuildChain(pts, sorted, 3, start, 1)
        h == Len(upper) + Len(lower) - 2
    IN  IF h <= 2 THEN 0 ELSE h

isQuadConcaveNever(corners) == FALSE

isQuadConcave(corners) == calcConvexHull(corners) < 4

(* --------------------------- perspective.ts ---------------------------- *)

\* 3x3 integer matrices are 9-tuples in row-major order; a matrix stands for
\* the coefficient vector M[1..8] / M[9] of getNormalizationCoefficients.
\* An operand is bound through a singleton set (m \in {M}): it is a value,
\* computed once, as an argument of the source's functions is.
Adj(M) ==
    CHOOSE adj \in {
    << m[5] * m[9] - m[6] * m[8], m[3] * m[8] - m[2] * m[9], m[2] * m[6] - m[3] * m[5],
       m[6] * m[7] - m[4] * m[9], m[1] * m[9] - m[3] * m[7], m[3] * m[4] - m[1] * m[6],
       m[4] * m[8] - m[5] * m[7], m[2] * m[7] - m[1] * m[8], m[1] * m[5] - m[2] * m[4] >>
      : m \in {M} } : TRUE

MulMV(M, v) ==
    CHOOSE mv \in {
    << m[1] * w[1] + m[2] * w[2] + m[3] * w[3],
       m[4] * w[1] + m[5] * w[2] + m[6] * w[3],
       m[7] * w[1] + m[8] * w[2] + m[9] * w[3] >>
      : m \in {M}, w \in {v} } : TRUE

MulMM(A, B) ==
    CHOOSE mm \in {
    << a[1] * b[1] + a[2] * b[4] + a[3] * b[7],
       a[1] * b[2] + a[2] * b[5] + a[3] * b[8],
       a[1] * b[3] + a[2] * b[6] + a[3] * b[9],
       a[4] * b[1] + a[5] * b[4] + a[6] * b[7],
       a[4] * b[2] + a[5] * b[5] + a[6] * b[8],
       a[4] * b[3] + a[5] * b[6] + a[6] * b[9],
       a[7] * b[1] + a[8] * b[4] + a[9] * b[7],
       a[7] * b[2] + a[8] * b[5] + a[9] * b[8],
       a[7] * b[3] + a[8] * b[6] + a[9] * b[9] >>
      : a \in {A}, b \in {B} } : TRUE

RECURSIVE GcdSeq(_, _)
GcdSeq(M, k) == IF k = 0 THEN 0 ELSE Gcd(Abs(M[k]), GcdSeq(M, k - 1))

\* The same coefficients with the common factor removed and M[9] > 0.
NormM(M) ==
    CHOOSE n \in {
        IF g = 0 THEN m
        ELSE << (s * m[1]) \div g, (s * m[2]) \div g, (s * m[3]) \div g,
                (s * m[4]) \div g, (s * m[5]) \div g, (s * m[6]) \div g,
                (s * m[7]) \div g, (s * m[8]) \div g, (s * m[9]) \div g >>
      : <<m, g, s>> \in { <<m, GcdSeq(m, 9), IF m[9] < 0 THEN -1 ELSE 1>> : m \in {M} } } : TRUE

\* The projective frame of a quad: columns l_j * q_j with
\* l_1 q_1 + l_2 q_2 + l_3 q_3 ~ q_4.
QuadFrame(q) ==
    LET P == << q[1][1], q[2][1], q[3][1],
                q[1][2], q[2][2], q[3][2],
                q[1][3], q[2][3], q[3][3] >>
        l == MulMV(Adj(P), q[4])
    IN  NormM(<< l[1] * q[1][1], l[2] * q[2][1], l[3] * q[3][1],
                 l[1] * q[1][2], l[2] * q[2][2], l[3] * q[3][2],
                 l[1] * q[1][3], l[2] * q[2][3], l[3] * q[3][3] >>)

\* No three of the four points are collinear.
GeneralPosition(q) ==
    \A i, j, k \in 1..4 : i < j /\ j < k => orient(q[i], q[j], q[k]) # 0

\* The matrix H with H q_src ~ q_dst for the four point pairs.
Homography(srcPts, dstPts) == NormM(MulMM(QuadFrame(dstPts), Adj(QuadFrame(srcPts))))

\* The eight equations r1..r8 of matA x = matB, for coefficients x = M[1..8]/M[9].
SolvesSystem(srcPts, dstPts, M) ==
    \A i \in 1..4 :
        LET sx == srcPts[i][1]  sy == srcPts[i][2]  sw == srcPts[i][3]
            dx == dstPts[i][1]  dy == dstPts[i][2]  dw == dstPts[i][3]
        IN  /\ (M[1] * sx + M[2] * sy + M[3] * sw) * dw - dx * (M[7] * sx + M[8] * sy)
                 = dx * sw * M[9]
            /\ (M[4] * sx + M[5] * sy + M[6] * sw) * dw - dy * (M[7] * sx + M[8] * sy)
                 = dy * sw * M[9]

IdentityCoeffs == <<1, 0, 0, 0, 1, 0, 0, 0, 1>>
NaNCoeffs == <<0, 0, 0, 0, 0, 0, 0, 0, 0>>

\* Finite coefficients that solve nothing: 1, -4.75, -1, -1.25, 1.25, 5.875,
\* 0.09375, -0.15625, which the elimination returns for the square
\* (1,2) (2,2) (1,1) (2,1) sent to (8,8) (9,6) (12,6) (12,4).
RoundOffCoeffs == <<32, -152, -32, -40, 40, 188, 3, -5, 32>>

\* What a singular system yields.  numeric.inv divides by its pivot and never
\* tests it.  A pivot that is 0 spreads NaN through the elimination and the
\* coefficients come out NaN; a column that is all NaN leaves the row index at
\* -1 and raises a TypeError that the catch turns into the identity; a pivot
\* that round-off left tiny instead of 0 gives finite coefficients.
SolveOutcomes == {"identity", "nan", "finite"}

SingularCoeffs(onSingular) ==
    IF onSingular = "identity" THEN IdentityCoeffs
    ELSE IF onSingular = "nan" THEN NaNCoeffs
    ELSE RoundOffCoeffs

\* Tuples of the nine entries of a row and of the eight rows of a matrix.
Row9(f) == << f[1], f[2], f[3], f[4], f[5], f[6], f[7], f[8], f[9] >>
Rows8(F) == << F[1], F[2], F[3], F[4], F[5], F[6], F[7], F[8] >>

\* matA with matB as its ninth column; the two rows of a point pair are
\* multiplied by the weights of the two points.
matAB(srcPts, dstPts) ==
    Rows8([r \in 1..8 |->
        LET i  == (r + 1) \div 2
            sx == srcPts[i][1]  sy == srcPts[i][2]  sw == srcPts[i][3]
            dx == dstPts[i][1]  dy == dstPts[i][2]  dw == dstPts[i][3]
        IN  IF r % 2 = 1
            THEN << sx * dw, sy * dw, sw * dw, 0, 0, 0, -(dx * sx), -(dx * sy), dx * sw >>
            ELSE << 0, 0, 0, sx * dw, sy * dw, sw * dw, -(dy * sx), -(dy * sy), dy * sw >>])

NormRow(row) ==
    LET g == GcdSeq(row, 9)
    IN  IF g = 0 THEN row ELSE Row9([c \in 1..9 |-> row[c] \div g])

\* The first row from row k on with a non-zero entry in column k, 0 if none.
PivotRow(M, k) ==
    IF \E r \in k..8 : M[r][k] # 0
    THEN CHOOSE r \in k..8 : M[r][k] # 0 /\ \A q \in k..(r - 1) : M[q][k] = 0
    ELSE 0

\* Row r after row k, whose pivot is in column k, has cleared its column k.
ClearColumn(rowK, rowR, k) ==
    NormRow(Row9([c \in 1..9 |-> rowK[k] * rowR[c] - rowR[k] * rowK[c]]))

\* Gauss-Jordan elimination of columns k..8 in integers; <<>> when a column
\* has no pivot, which is when matA is singular.
RECURSIVE Eliminate(_, _)
Eliminate(M, k) ==
    IF k > 8 THEN M
    ELSE LET p == PivotRow(M, k)
             S == [M EXCEPT ![k] = M[p], ![p] = M[k]]
         IN  IF p = 0 THEN <<>>
             ELSE Eliminate(Rows8([r \in 1..8 |->
                                IF r = k THEN S[k] ELSE ClearColumn(S[k], S[r], k)]),
                            k + 1)

Lcm(a, b) == (a \div Gcd(a, b)) * b

RECURSIVE LcmDiag(_, _)
LcmDiag(M, k) == IF k = 0 THEN 1 ELSE Lcm(Abs(M[k][k]), LcmDiag(M, k - 1))

\* matX = inv(matA) matB as coefficients over one denominator, NaNCoeffs when
\* matA is singular.
matX(srcPts, dstPts) ==
    LET M == Eliminate(matAB(srcPts, dstPts), 1)
        L == LcmDiag(M, 8)
    IN  IF M = <<>> THEN NaNCoeffs
        ELSE NormM([k \in 1..9 |-> IF k = 9 THEN L ELSE (M[k][9] * L) \div M[k][k]])

\* For quads in general position the system has exactly one solution iff the
\* bottom-right element of the homography, which the system fixes at 1, is
\* not 0, and the solution is then the homography; for other quads the system
\* is eliminated.
getNormalizationCoefficients(srcPts, dstPts, isInverse, onSingular) ==
    LET s == IF isInverse THEN dstPts ELSE srcPts
        d == IF isInverse THEN srcPts ELSE dstPts
        x == IF GeneralPosition(s) /\ GeneralPosition(d)
             THEN LET H == Homography(s, d) IN IF H[9] # 0 THEN H ELSE NaNCoeffs
             ELSE matX(s, d)
    IN  IF x # NaNCoeffs THEN x ELSE SingularCoeffs(onSingular)

\* new PerspT(srcPts, dstPts); onSingular[isInverse] is the outcome of each of
\* the two solves should its system be singular.
PerspT(srcQuad, dstQuad, onSingular) ==
    [ srcPts    |-> srcQuad,
      dstPts    |-> dstQuad,
      coeffs    |-> getNormalizationCoefficients(srcQuad, dstQuad, FALSE, onSingular[FALSE]),
      coeffsInv |-> getNormalizationCoefficients(srcQuad, dstQuad, TRUE, onSingular[TRUE]) ]

\* A caller that reads one of the two coefficient sets sees one outcome.
Both(onSingular) == [isInverse \in BOOLEAN |-> onSingular]

ApplyCoeffsNoOne(c, p) ==
    CHOOSE image \in {
        IF ~IsFinite(q) \/ m = NaNCoeffs THEN NaNPt
        ELSE Pt(m[1] * q[1] + m[2] * q[2] + m[3] * q[3],
                m[4] * q[1] + m[5] * q[2] + m[6] * q[3],
                m[7] * q[1] + m[8] * q[2])
      : m \in {c}, q \in {p} } : TRUE

\* (c0 x + c1 y + c2) / (c6 x + c7 y + 1), (c3 x + c4 y + c5) / (c6 x + c7 y + 1)
ApplyCoeffs(c, p) ==
    CHOOSE image \in {
        IF ~IsFinite(q) \/ m = NaNCoeffs THEN NaNPt
        ELSE Pt(m[1] * q[1] + m[2] * q[2] + m[3] * q[3],
                m[4] * q[1] + m[5] * q[2] + m[6] * q[3],
                m[7] * q[1] + m[8] * q[2] + m[9] * q[3])
      : m \in {c}, q \in {p} } : TRUE

transform(t, p) == ApplyCoeffs(t.coeffs, p)

transformInverse(t, p) == ApplyCoeffs(t.coeffsInv, p)

(* --------------------------- MeshWarper.ts ----------------------------- *)

\* THREE.PlaneGeometry(width, height, xAmount - 1, yAmount - 1): its vertices,
\* row by row from the top row, each row from the left.
PlaneGeometryFromCorner(width, height, xAmount, yAmount) ==
    [k \in 1..(xAmount * yAmount) |->
        LET ix == (k - 1) % xAmount
            iy == (k - 1) \div xAmount
        IN  Pt(ix * width * (yAmount - 1), -iy * height * (xAmount - 1),
               (xAmount - 1) * (yAmount - 1))]

PlaneGeometry(width, height, xAmount, yAmount) ==
    [k \in 1..(xAmount * yAmount) |->
        LET ix == (k - 1) % xAmount
            iy == (k - 1) \div xAmount
        IN  Pt((2 * ix * width - width * (xAmount - 1)) * (yAmount - 1),
               (height * (yAmount - 1) - 2 * iy * height) * (xAmount - 1),
               2 * (xAmount - 1) * (yAmount - 1))]

\* topLeft, topRight, bottomLeft, bottomRight of the plane's vertex array.
getPlaneCornerCoordinates(positions, verticesPerRow, rows) ==
    << positions[1], positions[verticesPerRow],
       positions[(rows - 1) * verticesPerRow + 1], positions[rows * verticesPerRow] >>

\* quadData.initalCorners: the Source Rectangle (the corners do not depend on
\* the plane's segment count, taken as 1 here).
initalCorners ==
    getPlaneCornerCoordinates(PlaneGeometry(PlaneWidth, PlaneHeight, 2, 2), 2, 2)

reoderGridPointsKeepOrder(points, gridSizeX, gridSizeY) == points

reoderGridPointsToBottomLeftOrigin(points, gridSizeX, gridSizeY) ==
    [n \in 1..(gridSizeX * gridSizeY) |->
        LET row == gridSizeY - 1 - ((n - 1) \div gridSizeX)
            col == (n - 1) % gridSizeX
        IN  points[row * gridSizeX + col + 1]]

\* The positions createGridControlPoints leaves in dragGridControlPoints and,
\* cloned, in referenceGridControlPoints.
createGridControlPoints(xAmount, yAmount) ==
    reoderGridPointsToBottomLeftOrigin(
        PlaneGeometry(PlaneWidth, PlaneHeight, xAmount, yAmount), xAmount, yAmount)

\* The positions createCornerControlPoints gives the four corner objects.
createCornerControlPoints == initalCorners

(* ------------------------------ state ---------------------------------- *)

VARIABLES
    xControlPointAmount,          \* grid width
    yControlPointAmount,          \* grid height
    dragCornerControlPoints,      \* Corner Set: TL, TR, BL, BR
    lastValidPosition,            \* cornerObjects[i].userData.lastValidPosition
    dragGridControlPoints,        \* Grid Set, bottom-left origin
    referenceGridControlPoints,   \* Reference Set, same order
    storage,                      \* localStorage[STORAGE_KEY]
    selected,                     \* the object DragControls is dragging
    moves,                        \* drag-move events so far
    lastOp,                       \* the operation that led to this state
    savedFor,                     \* history: the grid size the snapshot was saved under
    gestureEnded,                 \* history: a drag gesture has ended since the last reset
    material,                     \* the warp entries of the ShaderMaterial's defines and uniforms
    perspT,                       \* a PerspT instance of a caller of the library
    origin,                       \* the point the caller started from
    point,                        \* the point after the calls so far
    path,                         \* the calls so far
    pc,                           \* where the task of the current pointer move stands
    cursor,                       \* the grid point the loop of the corner branch is at
    transformer,                  \* the PerspT of the current pointer move
    rendered,                     \* a frame was rendered since the last change
    controllerUp,                 \* the controller window has run setupControllerSync
    projector,                    \* the projector window: its MeshWarper, what it received
    toController,                 \* messages posted, to be handled by the controller
    toProjector,                  \* messages posted, to be handled by the projector
    windowSync,                   \* the controller's WindowSync: its drag listener and timers
    windowManager,                \* the controller's WindowManager
    browser,                      \* the windows opened, the intervals set, the callbacks run
    call                          \* a call of a library function by a caller: arguments, result

\* The state of a transformer used on its own.
perspVars == << perspT, origin, point, path >>

\* A pointer move taken one step at a time, and the frames rendered.
frameVars == << pc, cursor, transformer, rendered >>

\* A controller window (whose MeshWarper is meshVars) and a projector window.
syncVars == << controllerUp, projector, toController, toProjector, windowSync,
              windowManager, browser >>

\* The WindowManager and what it asked of the browser.
windowVars == << windowManager, browser >>

\* The state of a MeshWarper and its page.
meshVars == << xControlPointAmount, yControlPointAmount, dragCornerControlPoints,
               lastValidPosition, dragGridControlPoints, referenceGridControlPoints,
               storage, selected, moves, lastOp, savedFor, gestureEnded, material >>

\* A function of the library called on its own.
callVars == << call >>

vars == << meshVars, perspVars, frameVars, syncVars, callVars >>

warpState == << dragCornerControlPoints, lastValidPosition,
                dragGridControlPoints, referenceGridControlPoints >>

NoSize == <<0, 0>>

\* The history of the snapshot a step leaves in storage: written now, kept,
\* or gone.
SavedForAfter(written) ==
    IF written THEN <<xControlPointAmount, yControlPointAmount>>
    ELSE IF storage'.present THEN savedFor ELSE NoSize

\* No transformer of its own is in use.
NoPerspT == [srcPts |-> <<>>, dstPts |-> <<>>, coeffs |-> NaNCoeffs, coeffsInv |-> NaNCoeffs]

PerspIdle ==
    /\ perspT = NoPerspT
    /\ origin = NaNPt
    /\ point = NaNPt
    /\ path = <<>>

\* No pointer move is being handled step by step.
FramesIdle ==
    /\ pc = "idle"
    /\ cursor = 0
    /\ transformer = NoPerspT
    /\ rendered = FALSE

\* The MeshWarper of a window that has not started.
NoWindow == [up |-> FALSE, received |-> FALSE, x |-> 0, y |-> 0,
             corners |-> <<>>, grid |-> <<>>, reference |-> <<>>]

\* No second window is in use.
\* A WindowSync that has not attached a drag listener. listeners: its 'drag'
\* listeners on the MeshWarper's drag controls; dragControls: whether its field
\* refers to those or to disposed ones; timers: pending timeouts of
\* reattachDragListener; gui: the EventChannel the calibration GUI emits on;
\* changes: history, the grid-size changes the GUI has made.
NoWindowSync == [listeners |-> 0, dragControls |-> "current", timers |-> 0, gui |-> "none",
                 changes |-> 0]

\* A WindowManager that has opened no window: projectorWindow and checkInterval
\* are null (0).
NoWindowManager == [projectorWindow |-> 0, checkInterval |-> 0]

\* A browser in which no window was opened and no interval set.
NoBrowser == [opened |-> 0, closed |-> {}, intervals |-> {}, set |-> 0, reported |-> <<>>]

WindowsIdle ==
    /\ windowManager = NoWindowManager
    /\ browser = NoBrowser

SyncIdle ==
    /\ controllerUp = FALSE
    /\ projector = NoWindow
    /\ toController = <<>>
    /\ toProjector = <<>>
    /\ windowSync = NoWindowSync
    /\ WindowsIdle

\* No function is being called on its own.
NoCall == [fn |-> "none", args |-> <<>>, returned |-> FALSE, value |-> <<>>]

CallIdle == call = NoCall

NoSnapshot == [present |-> FALSE, corners |-> <<>>, grid |-> <<>>, referenceGrid |-> <<>>]

NoObject == [group |-> "none", index |-> 0]

NoRequest == <<<<0, 1>>, <<0, 1>>>>

\* The record kept in lastOp; hadSnapshot tells, for a setGridSize, whether a
\* snapshot was stored when it began.
Op(op, obj, outcome, request, position) ==
    [op |-> op, group |-> obj.group, index |-> obj.index, outcome |-> outcome,
     request |-> request, position |-> position, hadSnapshot |-> op = "setGridSize" /\ storage.present]

(* ------------------------------ inputs --------------------------------- *)

\* Where a pointer move puts the dragged object.
DragPositions == {<<0, 2, 1>>, <<2, 2, 1>>, <<2, 0, 1>>}

\* The objects a pointer goes down on: the top-left and top-right corners,
\* the first grid point.
CornerTargets == {1, 2}
GridTargets == {1}

\* Grid sizes a page is constructed with (caller configuration or the saved
\* GUI settings); the constructor takes them as they are, also outside 2..10.
ConfigGridSizes == {<<2, 3>>, <<11, 2>>}

\* Arguments of setGridSize, each a rational <<numerator, denominator>>.
GridSizeRequests ==
    { <<<<1, 1>>, <<2, 1>>>>, <<<<3, 1>>, <<5, 2>>>>, <<<<11, 1>>, <<2, 1>>>> }

(* --------------------------- persistence ------------------------------- *)

\* JSON.stringify writes a number that is not finite as null, and a null
\* coordinate read back counts as 0 in every later computation.
JsonNumber(p) == IF IsFinite(p) THEN p ELSE <<0, 0, 1>>

saveToStorage(corners, grid, reference) ==
    [ present       |-> TRUE,
      corners       |-> [i \in DOMAIN corners |-> JsonNumber(corners[i])],
      grid          |-> [i \in DOMAIN grid |-> JsonNumber(grid[i])],
      referenceGrid |-> [i \in DOMAIN reference |-> JsonNumber(reference[i])] ]

SnapshotMatchesCornersOnly(stored, corners, grid) ==
    Len(stored.corners) = Len(corners)

\* The validation of loadFromStorage.
SnapshotMatches(stored, corners, grid) ==
    /\ Len(stored.corners) = Len(corners)
    /\ Len(stored.grid) = Len(grid)

\* data.forEach((pos, i) => target[i].set(pos.x, pos.y, pos.z)): an index with
\* no target raises a TypeError after the earlier writes are done.
ApplyStored(target, data) ==
    [i \in DOMAIN target |-> IF i <= Len(data) THEN data[i] ELSE target[i]]

\* The layout after loadFromStorage, given the default layout it starts from.
\* The three forEach loops run in order inside one try block whose catch only
\* logs: a TypeError in one of them skips the rest.
loadFromStorage(stored, corners, grid, reference) ==
    LET default == [ corners |-> corners, lastValid |-> corners, grid |-> grid,
                     reference |-> reference, outcome |-> "absent" ]
        cornersFit == Len(stored.corners) <= Len(corners)
        gridFit == cornersFit /\ Len(stored.grid) <= Len(grid)
        referenceFit == gridFit /\ Len(stored.referenceGrid) <= Len(reference)
    IN  IF ~stored.present THEN default
        ELSE IF ~SnapshotMatches(stored, corners, grid)
        THEN [default EXCEPT !.outcome = "discarded"]
        ELSE [ corners   |-> ApplyStored(corners, stored.corners),
               lastValid |-> ApplyStored(corners, stored.corners),
               grid      |-> IF cornersFit THEN ApplyStored(grid, stored.grid) ELSE grid,
               reference |-> IF gridFit THEN ApplyStored(reference, stored.referenceGrid)
                             ELSE reference,
               outcome   |-> IF referenceFit THEN "loaded" ELSE "caught" ]

(* ----------------------------- handlers -------------------------------- *)

snapBackMissing(corners, index, lastValid) == corners

\* object.position.copy(object.userData.lastValidPosition)
snapBack(corners, index, lastValid) == [corners EXCEPT ![index] = lastValid[index]]

projectGridStale(t, grid, reference) ==
    CHOOSE projected \in {
        [i \in DOMAIN reference |-> IF i = 1 THEN grid[i] ELSE transform(u, reference[i])]
      : u \in {t} } : TRUE

\* The loop of the corner branch: every grid point from its reference point.
projectGrid(t, grid, reference) ==
    CHOOSE projected \in {
        [i \in DOMAIN reference |-> transform(u, reference[i])] : u \in {t} } : TRUE

unprojectPointForward(t, reference, index, draggedPoint) ==
    [reference EXCEPT ![index] = transform(t, draggedPoint)]

\* The grid branch: the dragged point's reference from its new position.
unprojectPoint(t, reference, index, draggedPoint) ==
    [reference EXCEPT ![index] = transformInverse(t, draggedPoint)]

perspectiveTransformControlPoints(controlCorners, grid, index, pointGroupName, onSingular) ==
    LET perspectiveTransformer == PerspT(initalCorners, controlCorners, Both(onSingular))
    IN  /\ referenceGridControlPoints' =
               IF pointGroupName = "grid"
               THEN unprojectPoint(perspectiveTransformer, referenceGridControlPoints,
                                   index, grid[index])
               ELSE referenceGridControlPoints
        /\ dragGridControlPoints' =
               IF pointGroupName = "corner"
               THEN projectGrid(perspectiveTransformer, grid, referenceGridControlPoints)
               ELSE grid

\* handleDrag, entered with the dragged object already at its new position:
\* `corners` and `grid` are the point sets as DragControls left them.
handleDrag(object, position, corners, grid, onSingular) ==
    IF isQuadConcave(corners)
    THEN /\ dragCornerControlPoints' =
                IF object.group = "corner"
                THEN snapBack(corners, object.index, lastValidPosition)
                ELSE corners
         /\ dragGridControlPoints' = grid
         /\ UNCHANGED <<lastValidPosition, referenceGridControlPoints>>
         /\ lastOp' = Op("drag", object, "rejected", NoRequest, position)
    ELSE /\ dragCornerControlPoints' = corners
         /\ lastValidPosition' =
                IF object.group = "corner"
                THEN [lastValidPosition EXCEPT ![object.index] = corners[object.index]]
                ELSE lastValidPosition
         /\ perspectiveTransformControlPoints(corners, grid, object.index, object.group,
                                              onSingular)
         /\ lastOp' = Op("drag", object, "accepted", NoRequest, position)

Max(a, b) == IF a > b THEN a ELSE b
Min(a, b) == IF a < b THEN a ELSE b
MathFloor(q) == q[1] \div q[2]

clampGridSizeLowOnly(q) == Max(MIN_GRID, MathFloor(q))

\* Math.max(2, Math.min(10, Math.floor(x)))
clampGridSize(q) == Max(MIN_GRID, Min(MAX_GRID, MathFloor(q)))

sameGridSizeNever(x, y) == FALSE

\* The early return of setGridSize.
sameGridSize(x, y) == x = xControlPointAmount /\ y = yControlPointAmount

removeItemMissing == storage

\* localStorage.removeItem(STORAGE_KEY)
removeItem == NoSnapshot

warpNewGridMissing(t, reference) == reference

\* The loop that ends setGridSize: the new grid from the new reference.
warpNewGrid(t, reference) == projectGrid(t, reference, reference)

\* The warp entries of a ShaderMaterial. uControlPoints is the array the
\* uniform's value refers to: the one the field dragGridControlPoints holds, or
\* one it held before ("replaced").
Material(amount, controlPoints, x, y) ==
    [ CONTROL_POINT_AMOUNT |-> amount, uControlPoints |-> controlPoints,
      uGridSizeX |-> x, uGridSizeY |-> y ]

\* No MeshWarper, no material.
NoMaterial == Material(0, "none", 0, 0)

\* createShaderMaterial(), called after initializeControlPoints.
createShaderMaterial(xAmount, yAmount) ==
    Material(xAmount * yAmount, "dragGridControlPoints", xAmount, yAmount)

\* The material after a resize that leaves it alone: its uniform holds the
\* array that setGridSize has replaced.
updateShaderMissing(x, y) == [material EXCEPT !.uControlPoints = "replaced"]

\* setGridSize, "Update shader defines and uniforms".
updateShader(x, y) == Material(x * y, "dragGridControlPoints", x, y)

setGridSize(xRequest, yRequest, onSingular) ==
    LET x == clampGridSize(xRequest)
        y == clampGridSize(yRequest)
        reference == createGridControlPoints(x, y)
        perspectiveTransformer == PerspT(initalCorners, dragCornerControlPoints,
                                        Both(onSingular))
    IN  IF sameGridSize(x, y)
        THEN /\ UNCHANGED << xControlPointAmount, yControlPointAmount, material, warpState,
                             storage, selected >>
             /\ lastOp' = Op("setGridSize", NoObject, "unchanged",
                             <<xRequest, yRequest>>, NaNPt)
        ELSE /\ xControlPointAmount' = x
             /\ yControlPointAmount' = y
             /\ material' = updateShader(x, y)
             /\ referenceGridControlPoints' = reference
             /\ dragGridControlPoints' = warpNewGrid(perspectiveTransformer, reference)
             /\ storage' = removeItem
             /\ selected' = NoObject
             /\ UNCHANGED <<dragCornerControlPoints, lastValidPosition>>
             /\ lastOp' = Op("setGridSize", NoObject, "resized",
                             <<xRequest, yRequest>>, NaNPt)

\* new MeshWarper(config): the default layout, then loadFromStorage.
constructor(xAmount, yAmount) ==
    LET loaded == loadFromStorage(storage, createCornerControlPoints,
                                  createGridControlPoints(xAmount, yAmount),
                                  createGridControlPoints(xAmount, yAmount))
    IN  /\ xControlPointAmount' = xAmount
        /\ yControlPointAmount' = yAmount
        /\ material' = createShaderMaterial(xAmount, yAmount)
        /\ dragCornerControlPoints' = loaded.corners
        /\ lastValidPosition' = loaded.lastValid
        /\ dragGridControlPoints' = loaded.grid
        /\ referenceGridControlPoints' = loaded.reference
        /\ selected' = NoObject
        /\ lastOp' = Op("constructor", NoObject, loaded.outcome, NoRequest, NaNPt)

(* ------------------------------ actions -------------------------------- *)

Init ==
    /\ \E size \in ConfigGridSizes :
          /\ xControlPointAmount = size[1]
          /\ material = createShaderMaterial(size[1], size[2])
          /\ yControlPointAmount = size[2]
          /\ dragGridControlPoints = createGridControlPoints(size[1], size[2])
          /\ referenceGridControlPoints = createGridControlPoints(size[1], size[2])
    /\ dragCornerControlPoints = createCornerControlPoints
    /\ lastValidPosition = createCornerControlPoints
    /\ storage = NoSnapshot
    /\ selected = NoObject
    /\ moves = 0
    /\ lastOp = Op("constructor", NoObject, "absent", NoRequest, NaNPt)
    /\ savedFor = NoSize
    /\ gestureEnded = FALSE
    /\ PerspIdle
    /\ FramesIdle
    /\ SyncIdle
    /\ CallIdle

\* Pointer down over a control point: DragControls selects it.
DragStart ==
    /\ selected = NoObject
    /\ \E object \in [group : {"corner"}, index : CornerTargets]
                     \cup [group : {"grid"}, index : GridTargets] :
          /\ selected' = object
          /\ lastOp' = Op("dragstart", NoObject, "selected", NoRequest, NaNPt)
    /\ UNCHANGED << xControlPointAmount, yControlPointAmount, material, warpState, storage, moves,
                    savedFor, gestureEnded, perspVars, callVars, frameVars, syncVars >>

\* Pointer move: DragControls moves the selected object, then fires 'drag';
\* what the MeshWarper's listener does.
dragMove ==
    /\ selected # NoObject
    /\ moves < MaxMoves
    /\ \E position \in DragPositions, onSingular \in SolveOutcomes :
          handleDrag(selected, position,
                     IF selected.group = "corner"
                     THEN [dragCornerControlPoints EXCEPT ![selected.index] = position]
                     ELSE dragCornerControlPoints,
                     IF selected.group = "grid"
                     THEN [dragGridControlPoints EXCEPT ![selected.index] = position]
                     ELSE dragGridControlPoints,
                     onSingular)
    /\ moves' = moves + 1
    /\ UNCHANGED << xControlPointAmount, yControlPointAmount, material, storage, selected,
                    savedFor, gestureEnded >>

\* A pointer move on a page without a second window.
DragMove ==
    /\ dragMove
    /\ UNCHANGED << perspVars, callVars, frameVars, syncVars >>

\* Pointer up: DragControls fires 'dragend', whose listener saves.
DragEnd ==
    /\ selected # NoObject
    /\ storage' = saveToStorage(dragCornerControlPoints, dragGridControlPoints,
                                referenceGridControlPoints)
    /\ selected' = NoObject
    /\ lastOp' = Op("dragend", NoObject, "saved", NoRequest, NaNPt)
    /\ savedFor' = SavedForAfter(TRUE)
    /\ gestureEnded' = TRUE
    /\ UNCHANGED << xControlPointAmount, yControlPointAmount, material, warpState, moves, perspVars, callVars, frameVars, syncVars >>

\* The calibration GUI (or a caller) changes the grid density while no drag
\* is in progress.
SetGridSize ==
    /\ selected = NoObject
    /\ \E request \in GridSizeRequests, onSingular \in SolveOutcomes :
          setGridSize(request[1], request[2], onSingular)
    /\ savedFor' = SavedForAfter(FALSE)
    /\ UNCHANGED << moves, gestureEnded, perspVars, callVars, frameVars, syncVars >>

\* The page is reloaded: a new MeshWarper is constructed.
Reload ==
    /\ \E size \in ConfigGridSizes : constructor(size[1], size[2])
    /\ UNCHANGED << storage, moves, savedFor, gestureEnded, perspVars, callVars, frameVars, syncVars >>

\* resetToDefault only removes the stored snapshot.
ResetToDefault ==
    /\ storage' = removeItem
    /\ lastOp' = Op("resetToDefault", NoObject, "removed", NoRequest, NaNPt)
    /\ savedFor' = SavedForAfter(FALSE)
    /\ gestureEnded' = FALSE
    /\ UNCHANGED << xControlPointAmount, yControlPointAmount, material, warpState, selected, moves,
                    perspVars, callVars, frameVars, syncVars >>

Next ==
    \/ DragStart
    \/ DragMove
    \/ DragEnd
    \/ SetGridSize
    \/ Reload
    \/ ResetToDefault

Spec == Init /\ [][Next]_vars

(* ------------------------ PerspT on its own ---------------------------- *)

\* Calls of transform and transformInverse a caller chains.
MaxCalls == 2

\* Quads as TL, TR, BL, BR.
UnitSquare == << <<1, 2, 1>>, <<2, 2, 1>>, <<1, 1, 1>>, <<2, 1, 1>> >>
\* A convex quad; its homography from UnitSquare has bottom-right element 0.
Keystone == << <<8, 8, 1>>, <<9, 6, 1>>, <<12, 6, 1>>, <<12, 4, 1>> >>
\* The Source Rectangle with its top-left corner pulled out to (0, 2).
Pulled == [initalCorners EXCEPT ![1] = <<0, 2, 1>>]
\* ... pushed across the diagonal to (2, 0): the edges TL-BL and TR-BR cross.
BowTie == [initalCorners EXCEPT ![1] = <<2, 0, 1>>]
\* ... moved onto the line through TR and BL.
Collinear == [initalCorners EXCEPT ![1] = <<2, 2, 1>>]
\* All four corners in one place.
Collapsed == [i \in 1..4 |-> <<0, 0, 1>>]

SrcQuads == {initalCorners, UnitSquare, Pulled, Keystone, Collinear}
DstQuads == {initalCorners, UnitSquare, Pulled, Keystone, BowTie, Collinear, Collapsed}

\* Points a caller transforms.
Probes == {<<0, 0, 1>>, <<1, 1, 1>>, <<3, 3, 2>>, <<-2, -2, 1>>}

\* No MeshWarper exists.
MeshIdle ==
    /\ material = NoMaterial
    /\ xControlPointAmount = 0
    /\ yControlPointAmount = 0
    /\ dragCornerControlPoints = <<>>
    /\ lastValidPosition = <<>>
    /\ dragGridControlPoints = <<>>
    /\ referenceGridControlPoints = <<>>
    /\ storage = NoSnapshot
    /\ selected = NoObject
    /\ moves = 0
    /\ lastOp = Op("none", NoObject, "none", NoRequest, NaNPt)
    /\ savedFor = NoSize
    /\ gestureEnded = FALSE

\* const t = new PerspT(srcPts, dstPts), and a point to start from.
InitPerspT ==
    /\ MeshIdle
    /\ FramesIdle
    /\ SyncIdle
    /\ CallIdle
    /\ \E srcQuad \in SrcQuads, dstQuad \in DstQuads,
          onSingular \in [BOOLEAN -> SolveOutcomes] :
          perspT = PerspT(srcQuad, dstQuad, onSingular)
    /\ origin \in Probes
    /\ point = origin
    /\ path = <<>>

\* point = t.transform(point.x, point.y)
Transform ==
    /\ Len(path) < MaxCalls
    /\ point' = transform(perspT, point)
    /\ path' = Append(path, "transform")
    /\ UNCHANGED << perspT, origin, callVars, meshVars, frameVars, syncVars >>

\* point = t.transformInverse(point.x, point.y)
TransformInverse ==
    /\ Len(path) < MaxCalls
    /\ point' = transformInverse(perspT, point)
    /\ path' = Append(path, "transformInverse")
    /\ UNCHANGED << perspT, origin, callVars, meshVars, frameVars, syncVars >>

NextPerspT ==
    \/ Transform
    \/ TransformInverse

SpecPerspT == InitPerspT /\ [][NextPerspT]_vars

(* ------------------- a pointer move, step by step ---------------------- *)

runToCompletionNever == TRUE

\* The 'drag' listener is a synchronous function: the event loop takes its
\* next task, a pointer event or an animation frame, when handleDrag has
\* returned.
runToCompletion == pc = "idle"

PointerDown ==
    /\ runToCompletion
    /\ DragStart

\* DragControls moves the selected object and dispatches 'drag'.
PointerMove ==
    /\ runToCompletion
    /\ selected # NoObject
    /\ moves < MaxMoves
    /\ \E position \in DragPositions :
          /\ dragCornerControlPoints' =
                 IF selected.group = "corner"
                 THEN [dragCornerControlPoints EXCEPT ![selected.index] = position]
                 ELSE dragCornerControlPoints
          /\ dragGridControlPoints' =
                 IF selected.group = "grid"
                 THEN [dragGridControlPoints EXCEPT ![selected.index] = position]
                 ELSE dragGridControlPoints
          /\ lastOp' = Op("drag", selected, "pending", NoRequest, position)
    /\ pc' = "handleDrag"
    /\ rendered' = FALSE
    /\ moves' = moves + 1
    /\ UNCHANGED << xControlPointAmount, yControlPointAmount, material, lastValidPosition,
                    referenceGridControlPoints, storage, selected, savedFor, gestureEnded,
                    cursor, transformer, perspVars, callVars, syncVars >>

\* handleDrag up to the construction of the PerspT.
CheckQuad ==
    /\ pc = "handleDrag"
    /\ IF isQuadConcave(dragCornerControlPoints)
       THEN /\ dragCornerControlPoints' =
                   IF selected.group = "corner"
                   THEN snapBack(dragCornerControlPoints, selected.index, lastValidPosition)
                   ELSE dragCornerControlPoints
            /\ lastOp' = [lastOp EXCEPT !.outcome = "rejected"]
            /\ pc' = "idle"
            /\ UNCHANGED << lastValidPosition, transformer, cursor >>
       ELSE /\ lastValidPosition' =
                   IF selected.group = "corner"
                   THEN [lastValidPosition EXCEPT
                            ![selected.index] = dragCornerControlPoints[selected.index]]
                   ELSE lastValidPosition
            /\ \E onSingular \in SolveOutcomes :
                  transformer' = PerspT(initalCorners, dragCornerControlPoints,
                                        Both(onSingular))
            /\ lastOp' = [lastOp EXCEPT !.outcome = "accepted"]
            /\ pc' = "propagate"
            /\ cursor' = IF selected.group = "corner" THEN 1 ELSE selected.index
            /\ UNCHANGED dragCornerControlPoints
    /\ UNCHANGED << xControlPointAmount, yControlPointAmount, material, dragGridControlPoints,
                    referenceGridControlPoints, storage, selected, moves, savedFor,
                    gestureEnded, rendered, perspVars, callVars, syncVars >>

\* perspectiveTransformControlPoints after the construction: the one
\* assignment of the grid branch, or one round of the loop of the corner
\* branch.
Propagate ==
    /\ pc = "propagate"
    /\ IF selected.group = "grid"
       THEN /\ referenceGridControlPoints' =
                   unprojectPoint(transformer, referenceGridControlPoints, cursor,
                                  dragGridControlPoints[cursor])
            /\ pc' = "idle"
            /\ cursor' = 0
            /\ UNCHANGED dragGridControlPoints
       ELSE /\ dragGridControlPoints' =
                   [dragGridControlPoints EXCEPT
                       ![cursor] = transform(transformer, referenceGridControlPoints[cursor])]
            /\ pc' = IF cursor = Len(referenceGridControlPoints) THEN "idle" ELSE "propagate"
            /\ cursor' = IF cursor = Len(referenceGridControlPoints) THEN 0 ELSE cursor + 1
            /\ UNCHANGED referenceGridControlPoints
    /\ UNCHANGED << xControlPointAmount, yControlPointAmount, material, dragCornerControlPoints,
                    lastValidPosition, storage, selected, moves, lastOp, savedFor,
                    gestureEnded, transformer, rendered, perspVars, callVars, syncVars >>

PointerUp ==
    /\ runToCompletion
    /\ DragEnd

\* The animation frame callback renders the mesh from the three point sets.
Render ==
    /\ runToCompletion
    /\ ~rendered
    /\ rendered' = TRUE
    /\ UNCHANGED << meshVars, pc, cursor, transformer, perspVars, callVars, syncVars >>

NextFrames ==
    \/ PointerDown
    \/ PointerMove
    \/ CheckQuad
    \/ Propagate
    \/ PointerUp
    \/ Render

SpecFrames == Init /\ [][NextFrames]_vars

(* -------------------- controller and projector ------------------------- *)

\* (point.x + width / 2) / width, (point.y + height / 2) / height
normalizePoint(p, width, height) ==
    IF IsFinite(p)
    THEN Pt(height * (2 * p[1] + width * p[3]), width * (2 * p[2] + height * p[3]),
            2 * width * height * p[3])
    ELSE NaNPt

\* The normalized value scaled, and not moved back to the centred plane.
denormalizePointUncentred(n, width, height) ==
    IF IsFinite(n) THEN Pt(width * n[1], height * n[2], n[3]) ELSE NaNPt

\* normalized.x * width - width / 2, normalized.y * height - height / 2
denormalizePoint(n, width, height) ==
    IF IsFinite(n)
    THEN Pt(2 * width * n[1] - width * n[3], 2 * height * n[2] - height * n[3], 2 * n[3])
    ELSE NaNPt

normalizePoints(points) ==
    [i \in DOMAIN points |-> normalizePoint(points[i], PlaneWidth, PlaneHeight)]

\* getFullState of the controller, as far as the warp goes.
getFullState ==
    [ cornerPoints        |-> normalizePoints(dragCornerControlPoints),
      gridPoints          |-> normalizePoints(dragGridControlPoints),
      referenceGridPoints |-> normalizePoints(referenceGridControlPoints),
      gridSize            |-> <<xControlPointAmount, yControlPointAmount>> ]

\* normalized.forEach((n, i) => { if (i < target.length) target[i].set(...) })
applyPoints(target, normalized) ==
    [i \in DOMAIN target |->
        IF i <= Len(normalized)
        THEN denormalizePoint(normalized[i], PlaneWidth, PlaneHeight)
        ELSE target[i]]

\* setGridSize(gridSize) changes the size of window w: the size differs after
\* the clamp as well.
resizes(w, gridSize) ==
    <<clampGridSize(<<gridSize[1], 1>>), clampGridSize(<<gridSize[2], 1>>)>> # <<w.x, w.y>>

\* The projector's MeshWarper after applyFullState(state): setGridSize if the
\* size differs, then the three point sets.
applyFullState(w, state, onSingular) ==
    LET same == state.gridSize = <<w.x, w.y>> \/ ~resizes(w, state.gridSize)
        x == IF same THEN w.x ELSE clampGridSize(<<state.gridSize[1], 1>>)
        y == IF same THEN w.y ELSE clampGridSize(<<state.gridSize[2], 1>>)
        reference == IF same THEN w.reference ELSE createGridControlPoints(x, y)
        grid == IF same THEN w.grid
                ELSE warpNewGrid(PerspT(initalCorners, w.corners, Both(onSingular)),
                                 reference)
    IN  [ up        |-> TRUE,
          received  |-> TRUE,
          x         |-> x,
          y         |-> y,
          corners   |-> applyPoints(w.corners, state.cornerPoints),
          grid      |-> applyPoints(grid, state.gridPoints),
          reference |-> applyPoints(reference, state.referenceGridPoints) ]

\* mapper.setGridSize(gridSize.x, gridSize.y) in the projector.
projectorSetGridSize(w, gridSize, onSingular) ==
    IF resizes(w, gridSize)
    THEN LET x == clampGridSize(<<gridSize[1], 1>>)
             y == clampGridSize(<<gridSize[2], 1>>)
             reference == createGridControlPoints(x, y)
         IN  [ w EXCEPT
                 !.x = x,
                 !.y = y,
                 !.reference = reference,
                 !.grid = warpNewGrid(PerspT(initalCorners, w.corners, Both(onSingular)),
                                      reference) ]
    ELSE w

\* channel.postMessage: a message reaches the windows that are open.
postMessage(queue, open, message) == IF open THEN Append(queue, message) ELSE queue

\* Layouts the controller's MeshWarper is in when the windows start: the
\* default, or a corner dragged and the grid re-projected.
ControllerCorners ==
    {initalCorners, Pulled, [initalCorners EXCEPT ![2] = <<2, 2, 1>>]}

InitSync ==
    /\ \E size \in ConfigGridSizes, corners \in ControllerCorners, saved \in BOOLEAN :
          LET reference == createGridControlPoints(size[1], size[2])
              grid == projectGrid(PerspT(initalCorners, corners, Both("nan")),
                                  reference, reference)
          IN  /\ xControlPointAmount = size[1]
              /\ material = createShaderMaterial(size[1], size[2])
              /\ yControlPointAmount = size[2]
              /\ dragCornerControlPoints = corners
              /\ lastValidPosition = corners
              /\ dragGridControlPoints = grid
              /\ referenceGridControlPoints = reference
              /\ storage = IF saved THEN saveToStorage(corners, grid, reference)
                           ELSE NoSnapshot
              /\ savedFor = IF saved THEN size ELSE NoSize
              /\ gestureEnded = saved
    /\ selected = NoObject
    /\ moves = 0
    /\ lastOp = Op("constructor", NoObject, "absent", NoRequest, NaNPt)
    /\ PerspIdle
    /\ FramesIdle
    /\ SyncIdle
    /\ CallIdle

\* new WindowSync(mapper, { mode: CONTROLLER }): setupControllerSync.
StartController ==
    /\ ~controllerUp
    /\ controllerUp' = TRUE
    /\ toProjector' = postMessage(toProjector, projector.up, [type |-> "CONTROLLER_READY"])
    /\ windowSync' = [windowSync EXCEPT !.listeners = 1, !.dragControls = "current"]
    /\ UNCHANGED << projector, toController, meshVars, perspVars, callVars, frameVars,
                    windowVars >>

\* The projector page: new ProjectionMapper, whose MeshWarper loads the
\* snapshot of the origin it shares with the controller, then
\* new WindowSync(mapper, { mode: PROJECTOR }): setupProjectorSync.
StartProjector ==
    /\ ~projector.up
    /\ \E size \in ConfigGridSizes :
          LET loaded == loadFromStorage(storage, createCornerControlPoints,
                                       createGridControlPoints(size[1], size[2]),
                                       createGridControlPoints(size[1], size[2]))
          IN  projector' = [ up |-> TRUE, received |-> FALSE,
                             x |-> size[1], y |-> size[2],
                             corners |-> loaded.corners, grid |-> loaded.grid,
                             reference |-> loaded.reference ]
    /\ toController' =
           postMessage(postMessage(toController, controllerUp, [type |-> "PROJECTOR_READY"]),
                       controllerUp, [type |-> "REQUEST_FULL_STATE"])
    /\ UNCHANGED << controllerUp, toProjector, meshVars, perspVars, callVars, frameVars,
                    windowSync, windowVars >>

\* EventChannel.handleMessage in the controller: the full state on request,
\* reattachDragListener on GRID_SIZE_CHANGED (it takes the MeshWarper's drag
\* controls of that moment and sets a timeout).
ControllerReceive ==
    /\ controllerUp
    /\ toController # <<>>
    /\ toController' = Tail(toController)
    /\ toProjector' =
           IF Head(toController).type = "REQUEST_FULL_STATE"
           THEN postMessage(toProjector, projector.up,
                            [type |-> "FULL_STATE_SYNC", state |-> getFullState])
           ELSE toProjector
    /\ windowSync' =
           IF Head(toController).type = "GRID_SIZE_CHANGED"
           THEN [windowSync EXCEPT !.dragControls = "current", !.timers = @ + 1]
           ELSE windowSync
    /\ UNCHANGED << controllerUp, projector, meshVars, perspVars, callVars, frameVars,
                    windowVars >>

\* EventChannel.handleMessage in the projector: the full state, the point
\* sets of a drag, a grid size; CONTROLLER_READY has no handler there.
ProjectorReceive ==
    /\ projector.up
    /\ toProjector # <<>>
    /\ toProjector' = Tail(toProjector)
    /\ LET message == Head(toProjector)
       IN  IF message.type = "FULL_STATE_SYNC"
           THEN /\ \E onSingular \in SolveOutcomes :
                      projector' = applyFullState(projector, message.state, onSingular)
                /\ storage' = IF \/ message.state.gridSize = <<projector.x, projector.y>>
                                 \/ ~resizes(projector, message.state.gridSize)
                              THEN storage ELSE removeItem
           ELSE IF message.type = "GRID_SIZE_CHANGED"
           THEN /\ \E onSingular \in SolveOutcomes :
                      projector' = projectorSetGridSize(projector, message.gridSize, onSingular)
                /\ storage' = IF resizes(projector, message.gridSize)
                              THEN removeItem ELSE storage
           ELSE IF message.type = "CORNER_POINTS_UPDATED"
           THEN /\ projector' = [projector EXCEPT
                                    !.corners = applyPoints(@, message.points)]
                /\ UNCHANGED storage
           ELSE IF message.type = "GRID_POINTS_UPDATED"
           THEN /\ projector' = [projector EXCEPT
                                    !.grid = applyPoints(@, message.points),
                                    !.reference = applyPoints(@, message.referencePoints)]
                /\ UNCHANGED storage
           ELSE UNCHANGED << projector, storage >>
    /\ savedFor' = SavedForAfter(FALSE)
    /\ UNCHANGED << controllerUp, toController, xControlPointAmount, yControlPointAmount,
                    material,
                    warpState, selected, moves, lastOp, gestureEnded, perspVars, callVars, frameVars,
                    windowSync, windowVars >>

NextSync ==
    \/ StartController
    \/ StartProjector
    \/ ControllerReceive
    \/ ProjectorReceive

\* Both pages are opened, and a message posted to an open window is handled.
SpecSync ==
    /\ InitSync
    /\ [][NextSync]_vars
    /\ WF_vars(StartController)
    /\ WF_vars(StartProjector)
    /\ WF_vars(ControllerReceive)
    /\ WF_vars(ProjectorReceive)

(* ----------------------- isQuadConcave on its own ---------------------- *)

\* Coordinates of the corners a caller passes.
Lattice == {<<x, y, 1>> : x \in 0..2, y \in 0..2}

\* Every quad on the lattice: convex, dented, self-intersecting, with
\* collinear or coinciding corners.
LatticeQuads == {<<a, b, c, d>> : a \in Lattice, b \in Lattice, c \in Lattice, d \in Lattice}

\* A call of fn(args) that has not returned.
Call(fn, args) == [fn |-> fn, args |-> args, returned |-> FALSE, value |-> <<>>]

InitGeometry ==
    /\ MeshIdle
    /\ PerspIdle
    /\ FramesIdle
    /\ SyncIdle
    /\ \E corners \in LatticeQuads : call = Call("isQuadConcave", corners)

\* const isConcave = isQuadConcave(corners)
IsQuadConcave ==
    /\ call.fn = "isQuadConcave"
    /\ ~call.returned
    /\ call' = [call EXCEPT !.returned = TRUE, !.value = isQuadConcave(call.args)]
    /\ UNCHANGED << meshVars, perspVars, frameVars, syncVars >>

NextGeometry == IsQuadConcave

SpecGeometry == InitGeometry /\ [][NextGeometry]_vars

(* ------------------ the grid's point order on its own ------------------ *)

\* Arrays a caller passes for a W x H grid, row-major from the top row down:
\* points that tell their index, the same from the far end, and the vertex
\* positions of the plane.
PointArrays(W, H) ==
    { [k \in 1..(W * H) |-> <<k, 0, 1>>],
      [k \in 1..(W * H) |-> <<0, W * H - k, 1>>],
      PlaneGeometry(PlaneWidth, PlaneHeight, W, H) }

InitReorder ==
    /\ MeshIdle
    /\ PerspIdle
    /\ FramesIdle
    /\ SyncIdle
    /\ \E W \in MIN_GRID..MAX_GRID, H \in MIN_GRID..MAX_GRID :
          \/ \E points \in PointArrays(W, H) :
                call = Call("reoderGridPointsToBottomLeftOrigin",
                            [points |-> points, gridSizeX |-> W, gridSizeY |-> H])
          \/ call = Call("createGridControlPoints", [xAmount |-> W, yAmount |-> H])

\* reordered = this.reoderGridPointsToBottomLeftOrigin(points, gridSizeX, gridSizeY)
Reorder ==
    /\ call.fn = "reoderGridPointsToBottomLeftOrigin"
    /\ ~call.returned
    /\ call' = [call EXCEPT
                  !.returned = TRUE,
                  !.value = reoderGridPointsToBottomLeftOrigin(
                                call.args.points, call.args.gridSizeX, call.args.gridSizeY)]
    /\ UNCHANGED << meshVars, perspVars, frameVars, syncVars >>

\* createGridControlPoints: the positions of the plane's vertices are pushed
\* to the Grid Set and, cloned, to the Reference Set; then each is reordered.
CreateGridControlPoints ==
    /\ call.fn = "createGridControlPoints"
    /\ ~call.returned
    /\ LET xAmount == call.args.xAmount
           yAmount == call.args.yAmount
           positions == PlaneGeometry(PlaneWidth, PlaneHeight, xAmount, yAmount)
       IN  call' = [call EXCEPT
                      !.returned = TRUE,
                      !.value = [ dragGridControlPoints |->
                                      reoderGridPointsToBottomLeftOrigin(positions, xAmount, yAmount),
                                  referenceGridControlPoints |->
                                      reoderGridPointsToBottomLeftOrigin(positions, xAmount, yAmount) ]]
    /\ UNCHANGED << meshVars, perspVars, frameVars, syncVars >>

NextReorder ==
    \/ Reorder
    \/ CreateGridControlPoints

SpecReorder == InitReorder /\ [][NextReorder]_vars

(* ------------------------------ warp.vert ------------------------------ *)

\* vec2 arithmetic on exact points; a rational is <<numerator, denominator>>.
\* Operands are bound through singleton sets, as in perspective.ts above.
Add(p, q) ==
    CHOOSE sum \in
        { Pt(a[1] * b[3] + b[1] * a[3], a[2] * b[3] + b[2] * a[3], a[3] * b[3])
          : a \in {p}, b \in {q} } : TRUE

Scale(r, p) ==
    CHOOSE scaled \in
        { Pt(k[1] * a[1], k[1] * a[2], k[2] * a[3]) : k \in {r}, a \in {p} } : TRUE

Sub(p, q) == Add(p, Scale(<<-1, 1>>, q))

\* What a function of the shader returns, and the (x, y) pairs it passed to
\* getPoint on the way.
Fetched(xy, reads) == [xy |-> xy, reads |-> reads]

\* The edge point itself, in place of its mirror image.
MirrorClamped(a, b) == Fetched(a.xy, a.reads \cup b.reads)

\* 2.0 * a - b
Mirror(a, b) ==
    CHOOSE mirrored \in
        { Fetched(Sub(Scale(<<2, 1>>, m.xy), n.xy), m.reads \cup n.reads)
          : m \in {a}, n \in {b} } : TRUE

\* uControlPoints[y * uGridSizeX + x].xy; an index outside the array has no
\* defined result.
getPoint(uniforms, x, y) ==
    LET linearIndex == y * uniforms.uGridSizeX + x
    IN  Fetched(IF linearIndex + 1 \in DOMAIN uniforms.uControlPoints
                THEN uniforms.uControlPoints[linearIndex + 1]
                ELSE NaNPt,
                {<<x, y>>})

getPointResolvedY(uniforms, x, y) ==
    LET maxY == uniforms.uGridSizeY - 1
    IN  IF y < 0
        THEN Mirror(getPoint(uniforms, x, 0), getPoint(uniforms, x, 1))
        ELSE IF y > maxY
        THEN Mirror(getPoint(uniforms, x, maxY), getPoint(uniforms, x, maxY - 1))
        ELSE getPoint(uniforms, x, y)

\* The column index passed on as it is, in range or not.
getControlPointUnresolvedX(uniforms, xIndex, yIndex) ==
    getPointResolvedY(uniforms, xIndex, yIndex)

getControlPoint(uniforms, xIndex, yIndex) ==
    LET maxX == uniforms.uGridSizeX - 1
    IN  IF xIndex < 0
        THEN Mirror(getPointResolvedY(uniforms, 0, yIndex),
                    getPointResolvedY(uniforms, 1, yIndex))
        ELSE IF xIndex > maxX
        THEN Mirror(getPointResolvedY(uniforms, maxX, yIndex),
                    getPointResolvedY(uniforms, maxX - 1, yIndex))
        ELSE getPointResolvedY(uniforms, xIndex, yIndex)

\* p1 + 0.5 * t * (p2 - p0 + t * (2 p0 - 5 p1 + 4 p2 - p3 + t * (3 (p1 - p2) + p3 - p0)))
cubicInterpolate(p0, p1, p2, p3, t) ==
    CHOOSE p \in
        { Add(b, Scale(<<t[1], 2 * t[2]>>,
              Add(Sub(c, a),
                  Scale(t, Add(Sub(Add(Sub(Scale(<<2, 1>>, a), Scale(<<5, 1>>, b)),
                                       Scale(<<4, 1>>, c)), d),
                               Scale(t, Sub(Add(Scale(<<3, 1>>, Sub(b, c)), d), a)))))))
          : a \in {p0}, b \in {p1}, c \in {p2}, d \in {p3} } : TRUE

\* The 4 x 4 control points around the cell, interpolated along x, then y.
bicubicInterpolate(uniforms, uCell, vCell, cellIndexX, cellIndexY) ==
    CHOOSE p \in
        { LET row(rowIndex) ==
                  cubicInterpolate(cols[rowIndex][-1].xy, cols[rowIndex][0].xy,
                                   cols[rowIndex][1].xy, cols[rowIndex][2].xy, uCell)
          IN  Fetched(cubicInterpolate(row(-1), row(0), row(1), row(2), vCell),
                      UNION {cols[rowIndex][colIndex].reads :
                                 rowIndex \in -1..2, colIndex \in -1..2})
          : cols \in { [rowIndex \in -1..2 |-> [colIndex \in -1..2 |->
                           getControlPoint(uniforms, cellIndexX + colIndex,
                                           cellIndexY + rowIndex)]] } } : TRUE

\* mix(a, b, t) = a * (1 - t) + b * t
mix(a, b, t) == Add(Scale(<<t[2] - t[1], t[2]>>, a), Scale(t, b))

bilinearInterpolate(uniforms, u, v, cellIndexX, cellIndexY) ==
    CHOOSE p \in
        { Fetched(mix(mix(bL.xy, bR.xy, u), mix(tL.xy, tR.xy, u), v),
                  bL.reads \cup bR.reads \cup tL.reads \cup tR.reads)
          : bL \in {getControlPoint(uniforms, cellIndexX, cellIndexY)},
            bR \in {getControlPoint(uniforms, cellIndexX + 1, cellIndexY)},
            tL \in {getControlPoint(uniforms, cellIndexX, cellIndexY + 1)},
            tR \in {getControlPoint(uniforms, cellIndexX + 1, cellIndexY + 1)} } : TRUE

\* floor and fract of a rational that is not negative.
floor(r) == r[1] \div r[2]
fract(r) == <<r[1] % r[2], r[2]>>

\* vUv * vec2(uGridSizeX - 1, uGridSizeY - 1)
scaledGridUv(uniforms, uv) ==
    << <<uv[1][1] * (uniforms.uGridSizeX - 1), uv[1][2]>>,
       <<uv[2][1] * (uniforms.uGridSizeY - 1), uv[2][2]>> >>

\* main() up to the projection: the cell of the vertex's uv and the place in
\* it, then bicubicInterpolate.
main(uniforms, uv) ==
    LET scaled == scaledGridUv(uniforms, uv)
    IN  bicubicInterpolate(uniforms, fract(scaled[1]), fract(scaled[2]),
                           floor(scaled[1]), floor(scaled[2]))

\* main() with the line that calls bilinearInterpolate, which the source has
\* commented out.
mainBilinear(uniforms, uv) ==
    LET scaled == scaledGridUv(uniforms, uv)
    IN  bilinearInterpolate(uniforms, fract(scaled[1]), fract(scaled[2]),
                            floor(scaled[1]), floor(scaled[2]))

\* Grids the shader is compiled for: the sizes, and control points at their
\* default positions or bent so that no three of a row or column are evenly
\* spaced.
ShaderGridSizes == {<<2, 2>>, <<3, 2>>, <<2, 3>>, <<4, 3>>, <<10, 10>>}

BentGrid(W, H) == [k \in 1..(W * H) |-> <<k * k, 3 * k + ((k - 1) \div W) * k, 1>>]

Uniforms(points, W, H) == [uControlPoints |-> points, uGridSizeX |-> W, uGridSizeY |-> H]

\* Texture coordinates of vertices, each in [0,1].
UVs == {<<0, 1>>, <<1, 4>>, <<1, 2>>, <<3, 4>>, <<1, 1>>}

InitShader ==
    /\ MeshIdle
    /\ PerspIdle
    /\ FramesIdle
    /\ SyncIdle
    /\ \/ \E size \in ShaderGridSizes :
             \E points \in {createGridControlPoints(size[1], size[2]),
                            BentGrid(size[1], size[2])},
                xIndex \in -1..size[1], yIndex \in -1..size[2] :
                call = Call("getControlPoint",
                            [uniforms |-> Uniforms(points, size[1], size[2]),
                             xIndex |-> xIndex, yIndex |-> yIndex])
       \/ \E W \in MIN_GRID..MAX_GRID, H \in MIN_GRID..MAX_GRID, u \in UVs, v \in UVs,
             fn \in {"bicubicInterpolate", "bilinearInterpolate"} :
                call = Call(fn, [uniforms |-> Uniforms(createGridControlPoints(W, H), W, H),
                                 uv |-> <<u, v>>])

\* getControlPoint(xIndex, yIndex)
GetControlPoint ==
    /\ call.fn = "getControlPoint"
    /\ ~call.returned
    /\ call' = [call EXCEPT
                  !.returned = TRUE,
                  !.value = getControlPoint(call.args.uniforms, call.args.xIndex,
                                            call.args.yIndex)]
    /\ UNCHANGED << meshVars, perspVars, frameVars, syncVars >>

\* main() of a vertex with bicubic interpolation.
Bicubic ==
    /\ call.fn = "bicubicInterpolate"
    /\ ~call.returned
    /\ call' = [call EXCEPT
                  !.returned = TRUE,
                  !.value = main(call.args.uniforms, call.args.uv)]
    /\ UNCHANGED << meshVars, perspVars, frameVars, syncVars >>

\* bilinearInterpolate for the cell of a vertex's uv; main()'s own call of it is
\* commented out in the source.
Bilinear ==
    /\ call.fn = "bilinearInterpolate"
    /\ ~call.returned
    /\ call' = [call EXCEPT
                  !.returned = TRUE,
                  !.value = mainBilinear(call.args.uniforms, call.args.uv)]
    /\ UNCHANGED << meshVars, perspVars, frameVars, syncVars >>

NextShader ==
    \/ GetControlPoint
    \/ Bicubic
    \/ Bilinear

SpecShader == InitShader /\ [][NextShader]_vars

(* ------------- point sets from the controller to a receiver ------------ *)

\* A THREE.Vector3 or a NormalizedPoint: x and y as an exact point, and z.
Vector3(xy, z) == [xy |-> xy, z |-> z]

\* normalizePoint and denormalizePoint with the z they pass through.
normalize(vector, width, height) ==
    Vector3(normalizePoint(vector.xy, width, height), vector.z)

denormalize(normalized, width, height) ==
    Vector3(denormalizePoint(normalized.xy, width, height), normalized.z)

\* points.forEach((normalized, i) => cornerPoints[i].set(...))
applyCornerPoints(cornerPoints, points, width, height) ==
    [i \in DOMAIN cornerPoints |->
        IF i <= Len(points) THEN denormalize(points[i], width, height) ELSE cornerPoints[i]]

\* points.forEach((normalized, i) => { if (i < gridPoints.length) ... }), and
\* the same for the reference points.
applyGridPoints(gridPoints, referenceGridPoints, points, referencePoints, width, height) ==
    [ gridPoints |->
          [i \in DOMAIN gridPoints |->
              IF i <= Len(points) THEN denormalize(points[i], width, height)
              ELSE gridPoints[i]],
      referenceGridPoints |->
          [i \in DOMAIN referenceGridPoints |->
              IF i <= Len(referencePoints)
              THEN denormalize(referencePoints[i], width, height)
              ELSE referenceGridPoints[i]] ]

\* Plane dimensions of the windows' MeshWarper configuration.
PlaneDimensions == {1, 2, 3}

\* Point sets of a sender: on and off the plane, with thirds and tenths as
\* coordinates, with a z that is not zero, with a coordinate that is not finite.
SentPoints ==
    { [i \in 1..4 |-> Vector3(initalCorners[i], 0)],
      [i \in 1..4 |-> Vector3(Pulled[i], i)],
      << Vector3(<<1, 3, 10>>, 0), Vector3(<<-1, 2, 3>>, -1),
         Vector3(<<7, -5, 3>>, 2), Vector3(<<0, 0, 1>>, 0) >>,
      << Vector3(<<1, 1, 1>>, 0), Vector3(NaNPt, 0),
         Vector3(<<-4, 9, 7>>, 0), Vector3(<<3, 1, 2>>, 1) >> }

\* What the receiver's sets hold before the message.
ReceiverPoints ==
    { [i \in 1..4 |-> Vector3(initalCorners[i], 0)],
      [i \in 1..4 |-> Vector3(BowTie[i], 0)] }

InitNormalize ==
    /\ MeshIdle
    /\ PerspIdle
    /\ FramesIdle
    /\ SyncIdle
    /\ \E width \in PlaneDimensions, height \in PlaneDimensions,
          points \in SentPoints, target \in ReceiverPoints,
          type \in {"CORNER_POINTS_UPDATED", "GRID_POINTS_UPDATED"} :
          call = Call(type, [points |-> points, width |-> width, height |-> height,
                             target |-> target, message |-> <<>>])

\* The controller's drag listener builds the payload of the message.
Emit ==
    /\ call.fn \in {"CORNER_POINTS_UPDATED", "GRID_POINTS_UPDATED"}
    /\ ~call.returned
    /\ call.args.message = <<>>
    /\ call' = [call EXCEPT
                  !.args.message =
                      [i \in DOMAIN call.args.points |->
                          normalize(call.args.points[i], call.args.width, call.args.height)]]
    /\ UNCHANGED << meshVars, perspVars, frameVars, syncVars >>

\* The receiver's handler of CORNER_POINTS_UPDATED.
ApplyCornerPoints ==
    /\ call.fn = "CORNER_POINTS_UPDATED"
    /\ ~call.returned
    /\ call.args.message # <<>>
    /\ call' = [call EXCEPT
                  !.returned = TRUE,
                  !.value = applyCornerPoints(call.args.target, call.args.message,
                                              call.args.width, call.args.height)]
    /\ UNCHANGED << meshVars, perspVars, frameVars, syncVars >>

\* The receiver's handler of GRID_POINTS_UPDATED; the sender's set is sent as
\* points and as reference points.
ApplyGridPoints ==
    /\ call.fn = "GRID_POINTS_UPDATED"
    /\ ~call.returned
    /\ call.args.message # <<>>
    /\ call' = [call EXCEPT
                  !.returned = TRUE,
                  !.value = applyGridPoints(call.args.target, call.args.target,
                                            call.args.message, call.args.message,
                                            call.args.width, call.args.height)]
    /\ UNCHANGED << meshVars, perspVars, frameVars, syncVars >>

NextNormalize ==
    \/ Emit
    \/ ApplyCornerPoints
    \/ ApplyGridPoints

SpecNormalize == InitNormalize /\ [][NextNormalize]_vars

(* ---------------------------- WindowManager ---------------------------- *)

\* window.open calls a controller makes.
MaxWindows == 3

\* this.projectorWindow && !this.projectorWindow.closed
projectorWindowIsOpen ==
    /\ windowManager.projectorWindow # 0
    /\ windowManager.projectorWindow \notin browser.closed

\* isProjectorOpen()
isProjectorOpen == projectorWindowIsOpen

\* stopCloseMonitoring: clearInterval(this.checkInterval); the intervals that
\* remain.
stopCloseMonitoring == browser.intervals \ {windowManager.checkInterval}

\* The controller page with its WindowSync constructed: the close callback is
\* registered, no window was opened.
InitWindow ==
    /\ \E size \in ConfigGridSizes :
          /\ xControlPointAmount = size[1]
          /\ material = createShaderMaterial(size[1], size[2])
          /\ yControlPointAmount = size[2]
          /\ dragGridControlPoints = createGridControlPoints(size[1], size[2])
          /\ referenceGridControlPoints = createGridControlPoints(size[1], size[2])
    /\ dragCornerControlPoints = createCornerControlPoints
    /\ lastValidPosition = createCornerControlPoints
    /\ storage = NoSnapshot
    /\ selected = NoObject
    /\ moves = 0
    /\ lastOp = Op("constructor", NoObject, "absent", NoRequest, NaNPt)
    /\ savedFor = NoSize
    /\ gestureEnded = FALSE
    /\ PerspIdle
    /\ FramesIdle
    /\ CallIdle
    /\ controllerUp = TRUE
    /\ projector = NoWindow
    /\ toController = <<>>
    /\ toProjector = <<>>
    /\ windowSync = [NoWindowSync EXCEPT !.listeners = 1]
    /\ WindowsIdle

\* openProjectorWindow(): focus the window that is open, or window.open (which
\* gives a window, or null when the browser blocks it) and startCloseMonitoring.
OpenProjectorWindow ==
    /\ browser.set < MaxWindows
    /\ IF projectorWindowIsOpen
       THEN UNCHANGED windowVars
       ELSE \E blocked \in BOOLEAN :
               /\ windowManager' =
                      [ projectorWindow |-> IF blocked THEN 0 ELSE browser.opened + 1,
                        checkInterval |-> browser.set + 1 ]
               /\ browser' =
                      [browser EXCEPT
                          !.opened = IF blocked THEN @ ELSE @ + 1,
                          !.reported = IF blocked THEN @ ELSE Append(@, 0),
                          !.intervals = stopCloseMonitoring \cup {browser.set + 1},
                          !.set = @ + 1]
    /\ UNCHANGED << meshVars, perspVars, frameVars, callVars, controllerUp, projector,
                    toController, toProjector, windowSync >>

\* closeProjectorWindow(), also called by destroy().
CloseProjectorWindow ==
    /\ windowManager' = [windowManager EXCEPT !.checkInterval = 0]
    /\ browser' =
           [browser EXCEPT
               !.closed = IF projectorWindowIsOpen
                          THEN @ \cup {windowManager.projectorWindow} ELSE @,
               !.intervals = stopCloseMonitoring]
    /\ UNCHANGED << meshVars, perspVars, frameVars, callVars, controllerUp, projector,
                    toController, toProjector, windowSync >>

\* The user closes a projector window.
UserCloses ==
    /\ \E w \in 1..browser.opened :
          /\ w \notin browser.closed
          /\ browser' = [browser EXCEPT !.closed = @ \cup {w}]
    /\ UNCHANGED << meshVars, perspVars, frameVars, callVars, controllerUp, projector,
                    toController, toProjector, windowSync, windowManager >>

\* An interval set by startCloseMonitoring fires: handleWindowClosed if the
\* window is closed, which runs the close callback setupControllerSync has
\* registered.
Tick ==
    /\ \E interval \in browser.intervals :
          IF /\ windowManager.projectorWindow # 0
             /\ windowManager.projectorWindow \in browser.closed
          THEN /\ windowManager' = [projectorWindow |-> 0, checkInterval |-> 0]
               /\ browser' =
                      [browser EXCEPT
                          !.intervals = stopCloseMonitoring,
                          !.reported[windowManager.projectorWindow] = @ + 1]
          ELSE UNCHANGED windowVars
    /\ UNCHANGED << meshVars, perspVars, frameVars, callVars, controllerUp, projector,
                    toController, toProjector, windowSync >>

NextWindow ==
    \/ OpenProjectorWindow
    \/ CloseProjectorWindow
    \/ UserCloses
    \/ Tick

\* An interval that is set keeps firing.
SpecWindow == InitWindow /\ [][NextWindow]_vars /\ WF_vars(Tick)

(* ------------------ the controller's drag broadcast -------------------- *)

\* Grid sizes the GUI's binding yields (integers from 2 to 10).
GuiGridSizes == {<<2, 2>>, <<3, 2>>}

\* Messages posted and not yet handled, per window, beyond which the user
\* waits.
MaxInFlight == 1

\* Grid-size changes made in the GUI in one run.
MaxChanges == 2

RECURSIVE Times(_, _)
\* The messages of n listeners that each emit `messages`.
Times(messages, n) == IF n = 0 THEN <<>> ELSE messages \o Times(messages, n - 1)

\* The two messages of the drag listener, and of the GUI after a resize, for
\* the given sets.
CornerPointsUpdated(corners) ==
    [type |-> "CORNER_POINTS_UPDATED", points |-> normalizePoints(corners)]

GridPointsUpdated(grid, reference) ==
    [type |-> "GRID_POINTS_UPDATED", points |-> normalizePoints(grid),
     referencePoints |-> normalizePoints(reference)]

GridSizeChanged(gridSize) == [type |-> "GRID_SIZE_CHANGED", gridSize |-> gridSize]

\* The controller page with its WindowSync and its GUI, which emits on the
\* WindowSync's EventChannel (sync.getEventChannel()) or on an EventChannel of
\* its own with another source; the projector page is open and in sync.
InitGui ==
    /\ \E size \in ConfigGridSizes, gui \in {"shared", "own"} :
          /\ xControlPointAmount = size[1]
          /\ material = createShaderMaterial(size[1], size[2])
          /\ yControlPointAmount = size[2]
          /\ dragGridControlPoints = createGridControlPoints(size[1], size[2])
          /\ referenceGridControlPoints = createGridControlPoints(size[1], size[2])
          /\ projector = [ up |-> TRUE, received |-> TRUE, x |-> size[1], y |-> size[2],
                           corners |-> createCornerControlPoints,
                           grid |-> createGridControlPoints(size[1], size[2]),
                           reference |-> createGridControlPoints(size[1], size[2]) ]
          /\ windowSync = [NoWindowSync EXCEPT !.listeners = 1, !.gui = gui]
    /\ dragCornerControlPoints = createCornerControlPoints
    /\ lastValidPosition = createCornerControlPoints
    /\ storage = NoSnapshot
    /\ selected = NoObject
    /\ moves = 0
    /\ lastOp = Op("constructor", NoObject, "absent", NoRequest, NaNPt)
    /\ savedFor = NoSize
    /\ gestureEnded = FALSE
    /\ PerspIdle
    /\ FramesIdle
    /\ CallIdle
    /\ controllerUp = TRUE
    /\ toController = <<>>
    /\ toProjector = <<>>
    /\ WindowsIdle

\* The user acts when the windows have handled most of what was posted.
Settled ==
    /\ Len(toProjector) < MaxInFlight
    /\ Len(toController) < MaxInFlight

\* A pointer move on the controller: the MeshWarper's listener, then each
\* 'drag' listener of the WindowSync that is on the current drag controls.
ControllerDrag ==
    /\ Settled
    /\ dragMove
    /\ toProjector' =
           toProjector \o
           Times(<< CornerPointsUpdated(dragCornerControlPoints'),
                    GridPointsUpdated(dragGridControlPoints', referenceGridControlPoints') >>,
                 windowSync.listeners)
    /\ UNCHANGED << perspVars, callVars, frameVars, controllerUp, projector, toController,
                    windowSync, windowVars >>

\* The change handler of the GUI's grid size: mapper.setGridSize, which
\* disposes the drag controls and creates new ones when the size changes, then
\* GRID_SIZE_CHANGED and GRID_POINTS_UPDATED on the GUI's channel. A
\* BroadcastChannel does not deliver to itself.
GridSizeChange ==
    /\ Settled
    /\ selected = NoObject
    /\ windowSync.changes < MaxChanges
    /\ \E size \in GuiGridSizes, onSingular \in SolveOutcomes :
          /\ setGridSize(<<size[1], 1>>, <<size[2], 1>>, onSingular)
          /\ LET messages ==
                     << GridSizeChanged(size),
                        GridPointsUpdated(dragGridControlPoints', referenceGridControlPoints') >>
             IN  /\ toProjector' = toProjector \o messages
                 /\ toController' = IF windowSync.gui = "own"
                                    THEN toController \o messages ELSE toController
          /\ windowSync' =
                 IF sameGridSize(size[1], size[2])
                 THEN [windowSync EXCEPT !.changes = @ + 1]
                 ELSE [windowSync EXCEPT !.changes = @ + 1, !.listeners = 0,
                                         !.dragControls = "disposed"]
    /\ savedFor' = SavedForAfter(FALSE)
    /\ UNCHANGED << moves, gestureEnded, perspVars, callVars, frameVars, controllerUp,
                    projector, windowVars >>

\* The timeout of reattachDragListener: attachDragListener on the drag controls
\* the WindowSync took.
ReattachTimeout ==
    /\ windowSync.timers > 0
    /\ windowSync' =
           [windowSync EXCEPT
               !.timers = @ - 1,
               !.listeners = IF windowSync.dragControls = "current" THEN @ + 1 ELSE @]
    /\ UNCHANGED << meshVars, perspVars, callVars, frameVars, controllerUp, projector,
                    toController, toProjector, windowVars >>

NextGui ==
    \/ DragStart
    \/ ControllerDrag
    \/ DragEnd
    \/ GridSizeChange
    \/ ControllerReceive
    \/ ReattachTimeout
    \/ ProjectorReceive

\* A message posted is handled and a timeout set fires.
SpecGui ==
    /\ InitGui
    /\ [][NextGui]_vars
    /\ WF_vars(ControllerReceive)
    /\ WF_vars(ReattachTimeout)
    /\ WF_vars(ProjectorReceive)

(* ------------------------------ claims --------------------------------- *)

\* The homography of the Source Rectangle onto `corners`, applied to every
\* point of `reference`, for one of the outcomes of the solver.
ForwardImage(corners, reference, onSingular) ==
    LET t == PerspT(initalCorners, corners, Both(onSingular))
    IN  [i \in DOMAIN reference |-> transform(t, reference[i])]

\* The evenly tiled layout over the Source Rectangle, bottom row first, each
\* row from the left.
EvenTile(xAmount, yAmount) ==
    [n \in 1..(xAmount * yAmount) |->
        LET col == (n - 1) % xAmount
            row == (n - 1) \div xAmount
        IN  Pt((2 * col - (xAmount - 1)) * PlaneWidth * (yAmount - 1),
               (2 * row - (yAmount - 1)) * PlaneHeight * (xAmount - 1),
               2 * (xAmount - 1) * (yAmount - 1))]

\* The quad TL -> TR -> BR -> BL turns the same way, strictly, at each of its
\* four vertices: it is convex and its edges do not cross.
ConvexSimpleQuad(c) ==
    LET t1 == orient(c[1], c[2], c[4])
        t2 == orient(c[2], c[4], c[3])
        t3 == orient(c[4], c[3], c[1])
        t4 == orient(c[3], c[1], c[2])
    IN  \/ t1 > 0 /\ t2 > 0 /\ t3 > 0 /\ t4 > 0
        \/ t1 < 0 /\ t2 < 0 /\ t3 < 0 /\ t4 < 0

\* C1: in every state the four corners, in the order TL, TR, BR, BL, form a
\* convex quadrilateral that does not intersect itself.
C1_CornersConvexSimple == ConvexSimpleQuad(dragCornerControlPoints)

\* C2: a corner drag that is rejected leaves the Corner Set as it was before
\* the drag attempt, and leaves the Grid Set, the Reference Set and every
\* corner's last valid position unchanged.
C2_RejectedDragRestores ==
    [][ (lastOp'.op = "drag" /\ lastOp'.group = "corner"
         /\ isQuadConcave([dragCornerControlPoints EXCEPT
                               ![lastOp'.index] = lastOp'.position]))
        => /\ dragCornerControlPoints' = dragCornerControlPoints
           /\ dragGridControlPoints' = dragGridControlPoints
           /\ referenceGridControlPoints' = referenceGridControlPoints
           /\ lastValidPosition' = lastValidPosition ]_vars

\* A corner was dragged away from where it stood, onto a position that makes
\* the quad concave, and the drag was handled.
C2_Witness ==
    /\ lastOp.op = "drag" /\ lastOp.group = "corner"
    /\ lastOp.position # dragCornerControlPoints[lastOp.index]
    /\ isQuadConcave([dragCornerControlPoints EXCEPT ![lastOp.index] = lastOp.position])
    /\ dragCornerControlPoints # initalCorners

\* C3: in every state each grid point is the forward image of its reference
\* point under the homography from the Source Rectangle to the current
\* corners.  It is stated for the states whose corners are a convex simple
\* quad, where that homography exists and the solver has one outcome.
C3_GridIsForwardImage ==
    ConvexSimpleQuad(dragCornerControlPoints)
    => \E onSingular \in SolveOutcomes :
          dragGridControlPoints =
              ForwardImage(dragCornerControlPoints, referenceGridControlPoints, onSingular)

\* C4: after an accepted corner drag every grid point is the forward image of
\* its reference point under the homography to the new corners, the dragged
\* corner's last valid position is its new position, and the Reference Set
\* is as before.
C4_AcceptedCornerDragReprojects ==
    [][ (lastOp'.op = "drag" /\ lastOp'.group = "corner"
         /\ dragCornerControlPoints'[lastOp'.index] = lastOp'.position)
        => /\ \E onSingular \in SolveOutcomes :
                 dragGridControlPoints' =
                     ForwardImage(dragCornerControlPoints', referenceGridControlPoints,
                                  onSingular)
           /\ lastValidPosition'[lastOp'.index] = lastOp'.position
           /\ \A j \in 1..4 : j # lastOp'.index
                  => /\ lastValidPosition'[j] = lastValidPosition[j]
                     /\ dragCornerControlPoints'[j] = dragCornerControlPoints[j]
           /\ referenceGridControlPoints' = referenceGridControlPoints ]_vars

\* A second corner has been dragged and accepted: the grid had been warped by
\* the first drag and is now the image under the new corners, away from
\* its reference.
C4_Witness ==
    /\ lastOp.op = "drag" /\ lastOp.group = "corner" /\ lastOp.outcome = "accepted"
    /\ ConvexSimpleQuad(dragCornerControlPoints)
    /\ Cardinality({j \in 1..4 : dragCornerControlPoints[j] # initalCorners[j]}) = 2
    /\ dragGridControlPoints # referenceGridControlPoints
    /\ \A i \in DOMAIN dragGridControlPoints : IsFinite(dragGridControlPoints[i])

\* C5: a drag of grid point i leaves grid[i] at the dragged position, sets
\* reference[i] to the inverse image of that position under the homography
\* to the current corners, and changes no corner, no other grid point and
\* no other reference point.
C5_GridDragUnprojects ==
    [][ (lastOp'.op = "drag" /\ lastOp'.group = "grid")
        => /\ dragGridControlPoints'[lastOp'.index] = lastOp'.position
           /\ \E onSingular \in SolveOutcomes :
                 referenceGridControlPoints'[lastOp'.index] =
                     transformInverse(PerspT(initalCorners, dragCornerControlPoints,
                                             Both(onSingular)), lastOp'.position)
           /\ dragCornerControlPoints' = dragCornerControlPoints
           /\ lastValidPosition' = lastValidPosition
           /\ DOMAIN dragGridControlPoints' = DOMAIN dragGridControlPoints
           /\ DOMAIN referenceGridControlPoints' = DOMAIN referenceGridControlPoints
           /\ \A j \in DOMAIN dragGridControlPoints : j # lastOp'.index
                  => /\ dragGridControlPoints'[j] = dragGridControlPoints[j]
                     /\ referenceGridControlPoints'[j] = referenceGridControlPoints[j]
      ]_vars

\* A grid point was dragged while the corners were warped: its reference
\* point is finite and is not the dragged position.
C5_Witness ==
    /\ lastOp.op = "drag" /\ lastOp.group = "grid"
    /\ ConvexSimpleQuad(dragCornerControlPoints)
    /\ dragCornerControlPoints # initalCorners
    /\ dragGridControlPoints[lastOp.index] = lastOp.position
    /\ IsFinite(referenceGridControlPoints[lastOp.index])
    /\ referenceGridControlPoints[lastOp.index] # lastOp.position

\* C6: a change of grid density while the corners are warped leaves the
\* corners as they were, tiles the new Reference Set evenly over the Source
\* Rectangle, and makes the new Grid Set its forward image under the
\* homography to the corners from before the resize.
C6_ResizeKeepsWarp ==
    [][ (lastOp'.op = "setGridSize"
         /\ <<xControlPointAmount', yControlPointAmount'>>
                # <<xControlPointAmount, yControlPointAmount>>)
        => /\ dragCornerControlPoints' = dragCornerControlPoints
           /\ referenceGridControlPoints'
                 = EvenTile(xControlPointAmount', yControlPointAmount')
           /\ \E onSingular \in SolveOutcomes :
                 dragGridControlPoints' =
                     ForwardImage(dragCornerControlPoints,
                                  EvenTile(xControlPointAmount', yControlPointAmount'),
                                  onSingular) ]_vars

\* The density was changed to 3 x 2 under warped, convex corners: the new
\* grid has six finite points and is not the unwarped tiling.
C6_Witness ==
    /\ lastOp.op = "setGridSize" /\ lastOp.outcome = "resized"
    /\ xControlPointAmount = 3 /\ yControlPointAmount = 2
    /\ ConvexSimpleQuad(dragCornerControlPoints)
    /\ dragCornerControlPoints # initalCorners
    /\ Len(dragGridControlPoints) = 6
    /\ dragGridControlPoints # referenceGridControlPoints
    /\ \A i \in DOMAIN dragGridControlPoints : IsFinite(dragGridControlPoints[i])

\* min(10, max(2, floor(q))) for a rational q = <<numerator, denominator>>.
ClampedRequest(q) ==
    LET f == q[1] \div q[2]
        lo == IF f < 2 THEN 2 ELSE f
    IN  IF lo > 10 THEN 10 ELSE lo

\* C7: after setGridSize(x, y) the grid width is min(10, max(2, floor(x)))
\* and the grid height is min(10, max(2, floor(y))).
C7_SetGridSizeClamps ==
    lastOp.op = "setGridSize"
    => /\ xControlPointAmount = ClampedRequest(lastOp.request[1])
       /\ yControlPointAmount = ClampedRequest(lastOp.request[2])
       /\ Len(dragGridControlPoints) = xControlPointAmount * yControlPointAmount
       /\ Len(referenceGridControlPoints) = xControlPointAmount * yControlPointAmount

\* setGridSize(11, 2) was called on a grid of another size: the width was
\* clamped from above to 10.
C7_Witness ==
    /\ lastOp.op = "setGridSize" /\ lastOp.outcome = "resized"
    /\ lastOp.request[1][1] > 10 * lastOp.request[1][2]
    /\ xControlPointAmount = 10
    /\ Len(dragGridControlPoints) = 20

\* C8: setGridSize with values that clamp to the current width and height
\* changes nothing: corners, grid, reference, last valid positions, the
\* drag target and the stored snapshot are as before.
C8_SameSizeIsNoOp ==
    [][ (lastOp'.op = "setGridSize"
         /\ ClampedRequest(lastOp'.request[1]) = xControlPointAmount
         /\ ClampedRequest(lastOp'.request[2]) = yControlPointAmount)
        => /\ dragCornerControlPoints' = dragCornerControlPoints
           /\ lastValidPosition' = lastValidPosition
           /\ dragGridControlPoints' = dragGridControlPoints
           /\ referenceGridControlPoints' = referenceGridControlPoints
           /\ xControlPointAmount' = xControlPointAmount
           /\ yControlPointAmount' = yControlPointAmount
           /\ selected' = selected
           /\ storage' = storage ]_vars

\* setGridSize(1, 2) on a 2 x 2 grid, a request that only equals the current
\* size after clamping, with a grid point dragged off the homography image
\* and a snapshot stored: both are still there.
C8_Witness ==
    /\ lastOp.op = "setGridSize" /\ lastOp.outcome = "unchanged"
    /\ lastOp.request[1][1] < 2 * lastOp.request[1][2]
    /\ xControlPointAmount = 2 /\ yControlPointAmount = 2
    /\ storage.present
    /\ dragGridControlPoints # EvenTile(2, 2)
    /\ referenceGridControlPoints # EvenTile(2, 2)

\* C9: a setGridSize that changes the grid density leaves no snapshot in
\* storage.
C9_ResizeDeletesSnapshot ==
    [][ (lastOp'.op = "setGridSize"
         /\ <<xControlPointAmount', yControlPointAmount'>>
                # <<xControlPointAmount, yControlPointAmount>>)
        => ~storage'.present ]_vars

\* The density was changed while a snapshot of the old density was stored,
\* and the snapshot is gone.
C9_Witness ==
    /\ lastOp.op = "setGridSize" /\ lastOp.outcome = "resized"
    /\ lastOp.hadSnapshot
    /\ ~storage.present

\* C10: a mesh constructed over a stored snapshot whose corner count or grid
\* count differs from the configured grid has the default layout in all
\* three point sets; and whatever the snapshot, the three sets are either
\* all the snapshot's or all the default's.
C10_MismatchedSnapshotIgnored ==
    lastOp.op = "constructor" /\ storage.present
    => LET default == EvenTile(xControlPointAmount, yControlPointAmount)
           asDefault == /\ dragCornerControlPoints = initalCorners
                        /\ lastValidPosition = initalCorners
                        /\ dragGridControlPoints = default
                        /\ referenceGridControlPoints = default
           asStored == /\ dragCornerControlPoints = storage.corners
                       /\ dragGridControlPoints = storage.grid
                       /\ referenceGridControlPoints = storage.referenceGrid
       IN  /\ (Len(storage.corners) # 4
                \/ Len(storage.grid) # xControlPointAmount * yControlPointAmount)
               => asDefault
           /\ asDefault \/ asStored

\* A mesh was constructed over a snapshot saved under another number of grid
\* points, whose corners and grid are not the default ones.
C10_Witness ==
    /\ lastOp.op = "constructor" /\ storage.present
    /\ Len(storage.grid) # xControlPointAmount * yControlPointAmount
    /\ storage.corners # initalCorners
    /\ \E i \in 1..4 : storage.grid[i] # dragGridControlPoints[i]
    /\ dragCornerControlPoints = initalCorners

\* C11: a stored snapshot is applied on load only by an instance configured
\* with the width and the height it was saved under.
C11_SnapshotKeyedBySize ==
    (/\ lastOp.op = "constructor" /\ storage.present
     /\ dragCornerControlPoints = storage.corners
     /\ dragGridControlPoints = storage.grid
     /\ referenceGridControlPoints = storage.referenceGrid)
    => savedFor = <<xControlPointAmount, yControlPointAmount>>

\* C12: a snapshot saved at the end of a drag gesture and loaded by a freshly
\* constructed instance of the same grid size gives Corner, Grid and
\* Reference sets identical to those before the save, and each corner's last
\* valid position is its loaded position.  It is stated for corners that are
\* a convex simple quad.
C12_SaveLoadRoundTrip ==
    [][ (/\ lastOp.op = "dragend"
         /\ ConvexSimpleQuad(dragCornerControlPoints)
         /\ lastOp'.op = "constructor"
         /\ xControlPointAmount' = xControlPointAmount
         /\ yControlPointAmount' = yControlPointAmount)
        => /\ dragCornerControlPoints' = dragCornerControlPoints
           /\ dragGridControlPoints' = dragGridControlPoints
           /\ referenceGridControlPoints' = referenceGridControlPoints
           /\ lastValidPosition' = dragCornerControlPoints' ]_vars

\* C13: whenever no drag is in progress and a drag gesture has ended before,
\* the stored snapshot exists and is the snapshot of the current Corner, Grid
\* and Reference sets.
C13_SnapshotFollowsState ==
    (gestureEnded /\ selected = NoObject)
    => storage = saveToStorage(dragCornerControlPoints, dragGridControlPoints,
                               referenceGridControlPoints)

\* C14: after reset-to-default, with no drag in progress, the corners are the
\* Source Rectangle's, the Grid and Reference sets are the evenly tiled
\* default layout and no snapshot is stored.
C14_ResetRestoresDefault ==
    (lastOp.op = "resetToDefault" /\ selected = NoObject)
    => /\ dragCornerControlPoints = initalCorners
       /\ dragGridControlPoints = EvenTile(xControlPointAmount, yControlPointAmount)
       /\ referenceGridControlPoints = EvenTile(xControlPointAmount, yControlPointAmount)
       /\ ~storage.present

\* The system of one of the two solves of transformer t has no unique
\* solution.
SingularSolve(t, isInverse) ==
    getNormalizationCoefficients(t.srcPts, t.dstPts, isInverse, "nan") = NaNCoeffs

\* C15: a transformer whose linear solve failed is the identity: its
\* transform, when the forward system is singular, and its transformInverse,
\* when the inverse system is singular, return the point they are given.
C15_SingularSolveIsIdentity ==
    /\ (path = <<"transform">> /\ SingularSolve(perspT, FALSE)) => point = origin
    /\ (path = <<"transformInverse">> /\ SingularSolve(perspT, TRUE)) => point = origin

\* Both quads of transformer t are valid: convex, not self-intersecting, no
\* three corners on a line.
ValidPair(t) == ConvexSimpleQuad(t.srcPts) /\ ConvexSimpleQuad(t.dstPts)

\* C18: for a transformer of two valid quads, transformInverse of transform
\* of a point is that point (the arithmetic here is exact, so the two are
\* equal and not only close).
C18_RoundTrip ==
    (path = <<"transform", "transformInverse">> /\ ValidPair(perspT)) => point = origin

\* C19: the transformer of a valid quad onto itself is the identity:
\* transform returns the point it is given.
C19_SameQuadIsIdentity ==
    (/\ path = <<"transform">>
     /\ ConvexSimpleQuad(perspT.srcPts)
     /\ perspT.dstPts = perspT.srcPts)
    => point = origin

\* transform was called on the transformer of a valid quad onto itself, with
\* a point that is not one of its corners.
C19_Witness ==
    /\ path = <<"transform">>
    /\ ConvexSimpleQuad(perspT.srcPts)
    /\ perspT.dstPts = perspT.srcPts
    /\ perspT.srcPts # initalCorners
    /\ \A i \in 1..4 : perspT.srcPts[i] # origin

\* Vectors a caller moves the destination corners by.
Translations == {<<3, 0>>, <<-1, 2>>}

\* The point p, and the points of quad q, moved by vector v.
TranslatePt(p, v) ==
    IF IsFinite(p) THEN Pt(p[1] + v[1] * p[3], p[2] + v[2] * p[3], p[3]) ELSE NaNPt

TranslateQuad(q, v) == [i \in DOMAIN q |-> TranslatePt(q[i], v)]

\* C20: for valid quads S and D, the transformer of S onto D moved by v
\* sends every point to the image under the transformer of S onto D, moved
\* by v, whatever the two solves yielded.
C20_TranslationMovesImage ==
    (path = <<"transform">> /\ ValidPair(perspT))
    => \A v \in Translations, onSingular \in SolveOutcomes :
          transform(PerspT(perspT.srcPts, TranslateQuad(perspT.dstPts, v),
                           Both(onSingular)), origin)
              = TranslatePt(point, v)

\* C16: a rendered frame never sees a pointer move half done: not a moved
\* object whose quad was not checked yet, not a rejected corner that has not
\* snapped back, and after an accepted move every grid point is the image of
\* its reference point under the transformer of the corners as they are.
C16_FrameSeesWholeUpdate ==
    (rendered /\ lastOp.op = "drag")
    => /\ lastOp.outcome # "pending"
       /\ (lastOp.outcome = "rejected" /\ lastOp.group = "corner")
             => dragCornerControlPoints[lastOp.index] = lastValidPosition[lastOp.index]
       /\ lastOp.outcome = "accepted"
             => transformer.dstPts = dragCornerControlPoints
       /\ (lastOp.outcome = "accepted" /\ lastOp.group = "corner")
             => dragGridControlPoints =
                    projectGrid(transformer, dragGridControlPoints, referenceGridControlPoints)
       /\ (lastOp.outcome = "accepted" /\ lastOp.group = "grid")
             => referenceGridControlPoints[lastOp.index] =
                    transformInverse(transformer, dragGridControlPoints[lastOp.index])

\* A frame was rendered after an accepted corner move that changed the grid.
C16_Witness ==
    /\ rendered
    /\ lastOp.op = "drag"
    /\ lastOp.outcome = "accepted"
    /\ lastOp.group = "corner"
    /\ dragGridControlPoints # referenceGridControlPoints

\* The projector has received a FULL_STATE_SYNC and its MeshWarper has the
\* controller's grid size and point sets.
Synced ==
    /\ projector.received
    /\ projector.x = xControlPointAmount
    /\ projector.y = yControlPointAmount
    /\ projector.corners = dragCornerControlPoints
    /\ projector.grid = dragGridControlPoints
    /\ projector.reference = referenceGridControlPoints

\* C17: whichever of the two windows starts first, the projector eventually
\* receives a FULL_STATE_SYNC and has the controller's grid size and Corner,
\* Grid and Reference sets.
C17_ProjectorEventuallySynced == <>Synced

\* p lies in the triangle a b c, edges and vertices included; three collinear
\* points span a segment.
InTriangle(p, a, b, c) ==
    LET d1 == orient(a, b, p)
        d2 == orient(b, c, p)
        d3 == orient(c, a, p)
    IN  IF orient(a, b, c) # 0
        THEN ~((d1 < 0 \/ d2 < 0 \/ d3 < 0) /\ (d1 > 0 \/ d2 > 0 \/ d3 > 0))
        ELSE /\ d1 = 0 /\ d2 = 0 /\ d3 = 0
             /\ \E u, v \in {a, b, c} :
                   /\ ~XLess(p, u) /\ ~XLess(v, p)
                   /\ ~YLess(p, u) /\ ~YLess(v, p)

\* One corner lies in the triangle of the other three.
CornerInsideTriangle(q) ==
    \E i \in 1..4 :
        \E j, k, l \in 1..4 \ {i} :
            j < k /\ k < l /\ InTriangle(q[i], q[j], q[k], q[l])

SquareQuad == <<<<0, 0, 1>>, <<2, 0, 1>>, <<0, 2, 1>>, <<2, 2, 1>>>>

\* C21: isQuadConcave(corners) is true exactly when one corner lies in the
\* triangle of the other three (the hull has fewer than 4 vertices); it is
\* false for a square, true once a corner of the square is moved inside, and
\* the call changes neither its argument nor the warp state.
C21_ConcaveIffCornerInside ==
    [][ call'.returned /\ ~call.returned =>
          /\ call'.value = CornerInsideTriangle(call.args)
          /\ call'.value = (calcConvexHull(call.args) < 4)
          /\ call.args = SquareQuad => call'.value = FALSE
          /\ call.args = [SquareQuad EXCEPT ![2] = <<1, 1, 1>>] => call'.value = TRUE
          /\ call'.args = call.args
          /\ meshVars' = meshVars ]_vars

\* A corner strictly inside the triangle of the others was reported concave.
C21_Witness ==
    /\ call.fn = "isQuadConcave"
    /\ call.returned
    /\ call.value = TRUE
    /\ call.args = <<<<0, 0, 1>>, <<1, 1, 1>>, <<2, 1, 1>>, <<1, 2, 1>>>>

\* How often p occurs in the array.
Occurrences(array, p) == Cardinality({n \in DOMAIN array : array[n] = p})

\* output[r*W + c] = input[(H-1-r)*W + c] (indices from 0), nothing lost or
\* duplicated.
BottomLeftOrder(input, output, W, H) ==
    /\ DOMAIN output = 1..(W * H)
    /\ \A r \in 0..(H - 1), c \in 0..(W - 1) :
          output[r * W + c + 1] = input[(H - 1 - r) * W + c + 1]
    /\ \A k \in DOMAIN input : Occurrences(output, input[k]) = Occurrences(input, input[k])

\* C22: reordering a top-to-bottom row-major array puts the point of row r
\* (0 = bottom), column c at index r*W + c; the output is a permutation of the
\* input; the Grid and Reference sets are reordered alike, so index i of both
\* is the same logical point.
C22_ReorderToBottomLeft ==
    [][ call'.returned /\ ~call.returned =>
          /\ call.fn = "reoderGridPointsToBottomLeftOrigin" =>
                BottomLeftOrder(call.args.points, call'.value,
                                call.args.gridSizeX, call.args.gridSizeY)
          /\ call.fn = "createGridControlPoints" =>
                LET positions == PlaneGeometry(PlaneWidth, PlaneHeight,
                                               call.args.xAmount, call.args.yAmount)
                IN  /\ BottomLeftOrder(positions, call'.value.dragGridControlPoints,
                                       call.args.xAmount, call.args.yAmount)
                    /\ call'.value.referenceGridControlPoints
                         = call'.value.dragGridControlPoints ]_vars

\* A 3 x 2 array was reordered: its bottom row came first.
C22_Witness ==
    /\ call.fn = "reoderGridPointsToBottomLeftOrigin"
    /\ call.returned
    /\ call.args.gridSizeX = 3
    /\ call.args.gridSizeY = 2
    /\ call.args.points[4] = <<4, 0, 1>>
    /\ call.value = << <<4, 0, 1>>, <<5, 0, 1>>, <<6, 0, 1>>,
                       <<1, 0, 1>>, <<2, 0, 1>>, <<3, 0, 1>> >>

\* The four corners of the Source Rectangle: TL, TR, BL, BR of a
\* PlaneWidth x PlaneHeight plane centred at the origin.
SourceRectangle ==
    << Pt(-PlaneWidth, PlaneHeight, 2), Pt(PlaneWidth, PlaneHeight, 2),
       Pt(-PlaneWidth, -PlaneHeight, 2), Pt(PlaneWidth, -PlaneHeight, 2) >>

\* C23: after a construction that found no snapshot, and before any drag, the
\* Corner Set is the Source Rectangle's corners and every grid point equals
\* its reference point, the points tiling the Source Rectangle evenly.
C23_FreshGridIsReference ==
    lastOp.op = "constructor" /\ lastOp.outcome = "absent" =>
        /\ dragCornerControlPoints = SourceRectangle
        /\ lastValidPosition = SourceRectangle
        /\ dragGridControlPoints = referenceGridControlPoints
        /\ dragGridControlPoints = EvenTile(xControlPointAmount, yControlPointAmount)

\* A page reloaded after a drag that was never saved: constructed anew, no
\* snapshot found.
C23_Witness ==
    /\ lastOp.op = "constructor"
    /\ lastOp.outcome = "absent"
    /\ moves > 0
    /\ ~storage.present

\* C26: in every reachable state, also right after construction from the
\* caller's configuration, the grid width and height are integers in [2,10].
C26_GridSizeInRange ==
    /\ xControlPointAmount \in MIN_GRID..MAX_GRID
    /\ yControlPointAmount \in MIN_GRID..MAX_GRID

\* The control point stored at column x, row y of the grid.
Stored(uniforms, x, y) == uniforms.uControlPoints[y * uniforms.uGridSizeX + x + 1]

\* `edge` is midway between `virtual` and `neighbor`: virtual = 2*edge - neighbor.
IsMirror(virtual, edge, neighbor) ==
    /\ IsFinite(virtual)
    /\ Add(virtual, neighbor) = Scale(<<2, 1>>, edge)

\* The point of column x at row y, mirrored over the first or last row when y
\* is outside the grid.
RowPoint(uniforms, x, y) ==
    IF y < 0
    THEN CHOOSE v \in {Sub(Scale(<<2, 1>>, Stored(uniforms, x, 0)), Stored(uniforms, x, 1))} :
             IsMirror(v, Stored(uniforms, x, 0), Stored(uniforms, x, 1))
    ELSE IF y >= uniforms.uGridSizeY
    THEN CHOOSE v \in {Sub(Scale(<<2, 1>>, Stored(uniforms, x, uniforms.uGridSizeY - 1)),
                           Stored(uniforms, x, uniforms.uGridSizeY - 2))} :
             IsMirror(v, Stored(uniforms, x, uniforms.uGridSizeY - 1),
                      Stored(uniforms, x, uniforms.uGridSizeY - 2))
    ELSE Stored(uniforms, x, y)

\* C24: a control point requested outside the grid is the mirror image
\* 2*edge - neighbor: index -1 gives 2*p0 - p1, an index above the maximum gives
\* 2*p[max] - p[max-1]; the row index is resolved first and the column index
\* second, so a lookup outside on both axes is the column mirror of row-mirrored
\* points, and a lookup inside the grid is the stored point.
C24_MirrorExtrapolation ==
    [][GetControlPoint =>
        LET u == call.args.uniforms
            x == call.args.xIndex
            y == call.args.yIndex
            maxX == u.uGridSizeX - 1
            p == call'.value.xy
        IN  /\ x < 0 => IsMirror(p, RowPoint(u, 0, y), RowPoint(u, 1, y))
            /\ x > maxX => IsMirror(p, RowPoint(u, maxX, y), RowPoint(u, maxX - 1, y))
            /\ x \in 0..maxX => p = RowPoint(u, x, y)]_vars

\* A lookup outside a bent grid on both axes has returned.
C24_Witness ==
    /\ call.fn = "getControlPoint"
    /\ call.returned
    /\ call.args.xIndex < 0
    /\ call.args.yIndex > call.args.uniforms.uGridSizeY - 1
    /\ call.args.uniforms.uControlPoints
         = BentGrid(call.args.uniforms.uGridSizeX, call.args.uniforms.uGridSizeY)
    /\ IsFinite(call.value.xy)
    /\ \A k \in DOMAIN call.args.uniforms.uControlPoints :
           call.value.xy # call.args.uniforms.uControlPoints[k]

\* C29: for grid sizes W, H in 2..10 and uv in [0,1] x [0,1], uv = 1 included,
\* every read of the control-point array made by the bicubic interpolation (the
\* 4 x 4 neighbourhood cell-1 .. cell+2) and by the bilinear interpolation has
\* 0 <= x < W and 0 <= y < H, so its linear index y*W + x is within [0, W*H).
C29_ReadsWithinArray ==
    (/\ call.fn \in {"bicubicInterpolate", "bilinearInterpolate"}
     /\ call.returned)
    => LET W == call.args.uniforms.uGridSizeX
           H == call.args.uniforms.uGridSizeY
       IN  /\ call.value.reads # {}
           /\ \A read \in call.value.reads :
                 /\ read[1] \in 0..(W - 1)
                 /\ read[2] \in 0..(H - 1)
                 /\ read[2] * W + read[1] \in 0..(W * H - 1)
                 /\ read[2] * W + read[1] + 1 \in DOMAIN call.args.uniforms.uControlPoints

\* The bicubic interpolation of the vertex at uv = (1, 1) of a 2 x 10 grid has
\* returned: its cell is (1, 9), its neighbourhood spans columns 0..3 and rows
\* 8..11.
C29_Witness ==
    /\ call.fn = "bicubicInterpolate"
    /\ call.returned
    /\ call.args.uv = <<<<1, 1>>, <<1, 1>>>>
    /\ call.args.uniforms.uGridSizeX = MIN_GRID
    /\ call.args.uniforms.uGridSizeY = MAX_GRID
    /\ call.value.reads = {0, 1} \X {MAX_GRID - 2, MAX_GRID - 1}
    /\ call.value.xy = Stored(call.args.uniforms, MIN_GRID - 1, MAX_GRID - 1)

\* n is (raw + dimension/2) / dimension, stated without a division:
\* 2 * dimension * n = 2 * raw + dimension.
IsNormalized(n, raw, dimension) ==
    2 * dimension * n[1] * raw[2] = (2 * raw[1] + dimension * raw[2]) * n[2]

\* Coordinate 1 (x) or 2 (y) of an exact point as a rational.
Coordinate(p, axis) == <<p[axis], p[3]>>

\* C25: for positive plane width and height the normalized point is
\* (raw + dimension/2) / dimension on each axis with z passed through, and
\* denormalization inverts it, so a point set sent by the controller and
\* applied by a receiver with the same plane dimensions is written into the
\* receiver's Corner, Grid and Reference sets unchanged.
C25_NormalizeRoundTrip ==
    [][/\ Emit =>
            \A i \in DOMAIN call.args.points :
                LET raw == call.args.points[i]
                    n == call'.args.message[i]
                IN  /\ n.z = raw.z
                    /\ IsFinite(raw.xy) =>
                          /\ IsFinite(n.xy)
                          /\ IsNormalized(Coordinate(n.xy, 1), Coordinate(raw.xy, 1),
                                          call.args.width)
                          /\ IsNormalized(Coordinate(n.xy, 2), Coordinate(raw.xy, 2),
                                          call.args.height)
       /\ ApplyCornerPoints => call'.value = call.args.points
       /\ ApplyGridPoints =>
            /\ call'.value.gridPoints = call.args.points
            /\ call'.value.referenceGridPoints = call.args.points]_vars

\* A set with coordinates in thirds and tenths and a z that is not zero has
\* been applied by a receiver whose plane is 3 wide and 1 high and whose set
\* held other points.
C25_Witness ==
    /\ call.fn = "CORNER_POINTS_UPDATED"
    /\ call.returned
    /\ call.args.width = 3
    /\ call.args.height = 1
    /\ call.args.points[1] = Vector3(<<1, 3, 10>>, 0)
    /\ call.args.points[2].z = -1
    /\ call.args.message[1].xy # call.args.points[1].xy
    /\ call.args.target # call.args.points
    /\ call.value[1] = Vector3(<<1, 3, 10>>, 0)

\* How often the close callback ran for window w.
Reported(w) == IF w \in DOMAIN browser.reported THEN browser.reported[w] ELSE 0

\* C28: every time the projector window becomes closed, by the user or by
\* closeProjectorWindow(), the registered close callback is invoked once for
\* that window, the manager's reference to it is cleared and isProjectorOpen()
\* is false, and at most one monitoring interval is ever active.
C28_CloseReportedOnce ==
    /\ [](Cardinality(browser.intervals) <= 1)
    /\ \A w \in 1..MaxWindows :
          /\ [](w \in browser.closed /\ windowManager.projectorWindow = w
                   => ~isProjectorOpen)
          /\ [](Reported(w) <= 1)
          /\ (w \in browser.closed)
                ~> (/\ Reported(w) = 1
                    /\ windowManager.projectorWindow # w)

\* C27: after the controller's grid size was changed, which disposes and
\* recreates the drag controls, the drag listener is on the new drag controls,
\* so every drag-move on the controller is broadcast to the projector as
\* CORNER_POINTS_UPDATED and GRID_POINTS_UPDATED with the sets as they are after
\* the move.
C27_DragStillBroadcast ==
    [][moves' = moves + 1 =>
          /\ Len(toProjector') >= Len(toProjector) + 2
          /\ toProjector'[Len(toProjector') - 1]
                = CornerPointsUpdated(dragCornerControlPoints')
          /\ toProjector'[Len(toProjector')]
                = GridPointsUpdated(dragGridControlPoints', referenceGridControlPoints')]_vars

\* C30: in every reachable state the Grid Set and the Reference Set hold
\* width * height points each, and the renderer's control-point array, its
\* CONTROL_POINT_AMOUNT define and its grid-size uniforms are the current Grid
\* Set and the current width and height, also right after a resize or a
\* snapshot load.
C30_RendererFollowsGrid ==
    /\ Len(dragGridControlPoints) = xControlPointAmount * yControlPointAmount
    /\ Len(referenceGridControlPoints) = xControlPointAmount * yControlPointAmount
    /\ material.uControlPoints = "dragGridControlPoints"
    /\ material.CONTROL_POINT_AMOUNT = Len(dragGridControlPoints)
    /\ material.uGridSizeX = xControlPointAmount
    /\ material.uGridSizeY = yControlPointAmount

\* A resize from a 2 x 3 or 11 x 2 grid to 3 x 2 has just happened with a
\* corner off its default, so the new grid is not the default one.
C30_Witness ==
    /\ lastOp.op = "setGridSize"
    /\ lastOp.outcome = "resized"
    /\ xControlPointAmount = 3
    /\ yControlPointAmount = 2
    /\ dragCornerControlPoints # initalCorners
    /\ material.CONTROL_POINT_AMOUNT = 6

====
